---------------------------- MODULE Spec2Model ----------------------------
(***************************************************************************)
(* Model of Frappe Assistant Core:                                         *)
(*   - the SSE MCP bridge (client_packages/sse-mcp-bridge/sse_mcp_bridge)  *)
(*     with its connection map, pending-request buffers, per-stream        *)
(*     response queues, the drain step and the periodic sweep;             *)
(*   - the MCP protocol server (mcp/server.py), the tool registry          *)
(*     (core/tool_registry.py) and the two endpoints that populate the     *)
(*     server's registry (api/fac_endpoint.py, api/mcp_endpoint.py).       *)
(***************************************************************************)
EXTENDS Integers, Sequences, FiniteSets, TLC

(***************************************************************************)
(* Bounds of the model.                                                    *)
(***************************************************************************)
MaxTicks == 2

MaxReqs == 2

MaxStreams == 2

(***************************************************************************)
(* Program constants of the bridge (seconds).                              *)
(***************************************************************************)
connection_grace_period == 5

SweepInterval == 10

BUsers == {"user_a"}

VARIABLES
    \* ---- bridge state (SSEMCPBridge) ----
    connections,          \* user_context -> stream whose response_queue is registered
    connection_metadata,  \* user_context -> [connection_id, auth_token]
    pending_requests,     \* user_context -> sequence of PendingRequest
    streams,              \* sequence of SSE stream coroutines: [user, pc, drain]
    queue,                \* queue[s]: the asyncio.Queue of stream s
    sent,                 \* sent[s]: the `message` events emitted on stream s
    inflight,             \* POST handlers suspended in the downstream call
    clock,                \* time.time(), in seconds
    lastSweep,            \* the time cleanup_task last woke up
    nextReq,              \* next fresh request id
    lost,                 \* history: request id -> why its response can no longer arrive
    covered,              \* history: <<s, r>>: stream s opened while r was pending, young
    \* ---- server state ----
    tool_configs,         \* FAC Tool Configuration: tool -> [enabled, role_access_mode, role_access]
    config_cache,         \* cache entry "fac_tool_registry_configs": <<>> or <<configs>>
    plugin_enabled,       \* the enabled plugins
    perm_denied,          \* users without the Frappe permission a tool requires
    fac_registry,         \* fac_endpoint.mcp._tool_registry (its keys, in order)
    mcp_registry,         \* mcp_endpoint.mcp._tool_registry (its keys, in order)
    last,                 \* the request just served alone, with its response
    threads,              \* concurrent request threads of fac_endpoint: [pc, req, todo, resp]
    \* ---- what the outside sees ----
    reply,                \* the HTTP answer to the bridge request just handled
    call,                 \* the call of process_mcp_request just made, with its result
    \* ---- functions applied on their own ----
    ser,                  \* the tool return value just serialized, with the outcome
    tool_registry,        \* MCPServer._tool_registry with its descriptors, in dict order
    registered,           \* the registrations made so far, in order (history)
    pings,                \* per stream, the ping events emitted so far
    applied,              \* the handler or function just applied on its own, with its result
    loads,                \* per server thread, its call of the registry in progress
    sweeper               \* the bridge's cleanup task: "running" or "failed"

bridgeVars == <<connections, connection_metadata, pending_requests, streams, queue,
                sent, inflight, clock, lastSweep, nextReq, lost, covered>>

serverVars == <<tool_configs, config_cache, plugin_enabled, perm_denied, fac_registry,
                mcp_registry, last, threads>>

serVars == <<ser>>

regVars == <<tool_registry, registered>>

loopVars == <<pings>>

appVars == <<applied>>

cacheVars == <<loads>>

taskVars == <<sweeper>>

fnVars == <<serVars, regVars, loopVars, appVars, cacheVars, taskVars>>

httpVars == <<reply, call, fnVars>>

vars == <<bridgeVars, serverVars, httpVars>>

(***************************************************************************)
(* Helpers on dictionaries (functions with a finite, changing domain).     *)
(***************************************************************************)
EmptyDict == [x \in {} |-> 0]

DictSet(d, k, v) == [x \in (DOMAIN d) \cup {k} |-> IF x = k THEN v ELSE d[x]]

DictDel(d, k) == [x \in (DOMAIN d) \ {k} |-> d[x]]

Range(s) == {s[i] : i \in DOMAIN s}

RECURSIVE SeqFilterYoung(_, _)
\* the list comprehension of cleanup_old_pending_requests
SeqFilterYoung(s, now) ==
    IF s = <<>> THEN <<>>
    ELSE IF now - Head(s).ts < connection_grace_period
         THEN <<Head(s)>> \o SeqFilterYoung(Tail(s), now)
         ELSE SeqFilterYoung(Tail(s), now)

StreamIds == DOMAIN streams

IsOpen(s) == streams[s].pc # "closed"

(***************************************************************************)
(* PendingRequest.__init__                                                 *)
(***************************************************************************)
PendingRequest(id, auth, now) == [id |-> id, auth |-> auth, ts |-> now]

(***************************************************************************)
(* SSEMCPBridge.queue_response_for_connection: the response is put on the  *)
(* queue registered for the user, or discarded with a warning.             *)
(***************************************************************************)
\* A put that jumps the queue.
queue_response_at_front(conns, q, u, resp) ==
    IF u \in DOMAIN conns
    THEN [q EXCEPT ![conns[u]] = <<resp>> \o @]
    ELSE q

queue_response_twice(conns, q, u, resp) ==
    IF u \in DOMAIN conns
    THEN [q EXCEPT ![conns[u]] = Append(Append(@, resp), resp)]
    ELSE q

queue_response_for_connection(conns, q, u, resp) ==
    IF u \in DOMAIN conns
    THEN [q EXCEPT ![conns[u]] = Append(@, resp)]
    ELSE q

(***************************************************************************)
(* The tail of SSEMCPBridge.process_mcp_request (use_sse=True), run when    *)
(* the downstream call has returned: queue the response if the user has a  *)
(* connection, otherwise return it to the caller, who discards it.         *)
(***************************************************************************)
process_mcp_request_queue(conns, q, u, resp) ==
    IF u \in DOMAIN conns
    THEN queue_response_for_connection(conns, q, u, resp)
    ELSE q

LostIfNoConnection(conns, l, u, id) ==
    IF u \in DOMAIN conns THEN l ELSE DictSet(l, id, "dropped")

NoReply == [endpoint |-> "none", status |-> 0, kind |-> "none"]

NoResp == [kind |-> "none", code |-> 0, message |-> "none", id |-> "absent",
           capabilities |-> FALSE, origin |-> "none"]

NoCall == [user |-> "none", method |-> "none", id |-> "absent", outcome |-> "none",
           use_sse |-> FALSE, returned |-> NoResp, response |-> NoResp, channel |-> "none"]

\* A server thread that is not inside the registry.  hit: the cache answered;
\* configs: the configurations the call decides from; db: the stored
\* configurations when the call began.
IdleLoad == [pc |-> "idle", hit |-> FALSE, configs |-> EmptyDict, db |-> EmptyDict]

\* No function has been applied yet.
FnInit ==
    /\ ser = [applied |-> FALSE]
    /\ tool_registry = <<>>
    /\ registered = <<>>
    /\ pings = [s \in 1 .. MaxStreams |-> <<>>]
    /\ applied = [fn |-> "none"]
    /\ loads = [th \in {1, 2} |-> IdleLoad]
    /\ sweeper = "running"

BridgeInit ==
    /\ reply = NoReply
    /\ call = NoCall
    /\ FnInit
    /\ connections = EmptyDict
    /\ connection_metadata = EmptyDict
    /\ pending_requests = EmptyDict
    /\ streams = <<>>
    /\ queue = <<>>
    /\ sent = <<>>
    /\ inflight = {}
    /\ clock = 0
    /\ lastSweep = 0
    /\ nextReq = 1
    /\ lost = EmptyDict
    /\ covered = {}

(***************************************************************************)
(* POST /mcp/sse (mcp_sse_endpoint_post) with valid Bearer credentials and *)
(* a method that is not answered directly: forward when the user has a     *)
(* connection, buffer a PendingRequest otherwise.                          *)
(***************************************************************************)
forward_or_buffer(u) ==
    /\ nextReq <= MaxReqs
    /\ nextReq' = nextReq + 1
    /\ IF u \in DOMAIN connections
       THEN /\ inflight' = inflight \cup
                   {[id |-> nextReq, user |-> u,
                     auth |-> IF u \in DOMAIN connection_metadata
                              THEN connection_metadata[u].auth_token
                              ELSE "bare"]}
            /\ UNCHANGED pending_requests
       ELSE /\ pending_requests' =
                   DictSet(pending_requests, u,
                           (IF u \in DOMAIN pending_requests
                            THEN pending_requests[u] ELSE <<>>)
                           \o <<PendingRequest(nextReq, "bare", clock)>>)
            /\ UNCHANGED inflight
    /\ UNCHANGED <<serverVars, connections, connection_metadata, streams, queue, sent,
                   clock, lastSweep, lost, covered>>

mcp_sse_endpoint_post(u) ==
    /\ forward_or_buffer(u)
    /\ UNCHANGED httpVars

(***************************************************************************)
(* The POST handler resumes after the downstream call                      *)
(* (process_mcp_request, lines 381-403).                                   *)
(***************************************************************************)
process_mcp_request_done(f) ==
    /\ f \in inflight
    /\ inflight' = inflight \ {f}
    /\ queue' = process_mcp_request_queue(connections, queue, f.user,
                                          [id |-> f.id])
    /\ lost' = LostIfNoConnection(connections, lost, f.user, f.id)
    /\ UNCHANGED <<serverVars, httpVars, connections, connection_metadata, pending_requests, streams,
                   sent, clock, lastSweep, nextReq, covered>>

(***************************************************************************)
(* GET /mcp/sse: generate_sse_stream up to the stabilisation sleep.        *)
(***************************************************************************)
RegisterFirstWins(conns, u, s) == IF u \in DOMAIN conns THEN conns ELSE DictSet(conns, u, s)

RegisterConnection(conns, u, s) == DictSet(conns, u, s)

register_stream(u) ==
    /\ Len(streams) < MaxStreams
    /\ LET s == Len(streams) + 1 IN
       /\ streams' = Append(streams, [user |-> u, pc |-> "stabilizing", drain |-> <<>>])
       /\ queue' = Append(queue, <<>>)
       /\ sent' = Append(sent, <<>>)
       /\ connections' = RegisterConnection(connections, u, s)
       /\ connection_metadata' =
              DictSet(connection_metadata, u,
                      [connection_id |-> s, auth_token |-> "header"])
       /\ covered' = covered \cup
              (IF u \in DOMAIN pending_requests
               THEN {<<s, p.id>> : p \in {q \in Range(pending_requests[u]) :
                                          clock - q.ts < connection_grace_period}}
               ELSE {})
    /\ UNCHANGED <<serverVars, pending_requests, inflight, clock, lastSweep, nextReq, lost>>

generate_sse_stream_open(u) ==
    /\ register_stream(u)
    /\ UNCHANGED httpVars

(***************************************************************************)
(* SSEMCPBridge.process_pending_requests, entered after the sleep: pop the *)
(* user's buffer and start the downstream call of its first request.       *)
(***************************************************************************)
process_pending_requests(s) ==
    /\ s \in StreamIds
    /\ streams[s].pc = "stabilizing"
    /\ LET u == streams[s].user IN
       IF u \in DOMAIN pending_requests /\ pending_requests[u] # <<>>
       THEN /\ streams' = [streams EXCEPT ![s].pc = "draining",
                                          ![s].drain = pending_requests[u]]
            /\ pending_requests' = DictDel(pending_requests, u)
       ELSE /\ streams' = [streams EXCEPT ![s].pc = "loop"]
            /\ pending_requests' = DictDel(pending_requests, u)
    /\ UNCHANGED <<serverVars, httpVars, connections, connection_metadata, queue, sent, inflight,
                   clock, lastSweep, nextReq, lost, covered>>

(***************************************************************************)
(* One iteration of the loop of process_pending_requests: the downstream   *)
(* call of the first remaining request returns.                            *)
(***************************************************************************)
process_pending_requests_step(s) ==
    /\ s \in StreamIds
    /\ streams[s].pc = "draining"
    /\ LET u == streams[s].user
           p == Head(streams[s].drain)
           rest == Tail(streams[s].drain)
       IN /\ queue' = process_mcp_request_queue(connections, queue, u,
                                                [id |-> p.id])
          /\ lost' = LostIfNoConnection(connections, lost, u, p.id)
          /\ streams' = [streams EXCEPT ![s].drain = rest,
                                        ![s].pc = IF rest = <<>> THEN "loop" ELSE "draining"]
    /\ UNCHANGED <<serverVars, httpVars, connections, connection_metadata, pending_requests, sent,
                   inflight, clock, lastSweep, nextReq, covered>>

(***************************************************************************)
(* One iteration of the stream loop that finds a response on the queue and *)
(* emits it as a `message` event.                                          *)
(***************************************************************************)
generate_sse_stream_message(s) ==
    /\ s \in StreamIds
    /\ streams[s].pc = "loop"
    /\ queue[s] # <<>>
    /\ sent' = [sent EXCEPT ![s] = Append(@, Head(queue[s]))]
    /\ queue' = [queue EXCEPT ![s] = Tail(@)]
    /\ UNCHANGED <<serverVars, httpVars, connections, connection_metadata, pending_requests, streams,
                   inflight, clock, lastSweep, nextReq, lost, covered>>

(***************************************************************************)
(* One iteration of the stream loop whose wait_for(queue.get(), 5.0) times *)
(* out: a `ping` event with the next counter, and the loop goes on.        *)
(***************************************************************************)
MaxPings == 2

ping_data(counter, conns) ==
    [type |-> "ping", counter |-> counter, active_connections |-> Cardinality(DOMAIN conns)]

\* a loop that gives up on a timeout
break_on_wait_timeout(st) == [st EXCEPT !.pc = "closed"]

\* except asyncio.TimeoutError: no break, no return: the while loop continues
on_wait_timeout(st) == st

generate_sse_stream_timeout(s) ==
    /\ s \in StreamIds
    /\ streams[s].pc = "loop"
    /\ queue[s] = <<>>
    /\ Len(pings[s]) < MaxPings
    /\ pings' = [pings EXCEPT ![s] = Append(@, ping_data(Len(@) + 1, connections))]
    /\ streams' = [streams EXCEPT ![s] = on_wait_timeout(@)]
    /\ UNCHANGED <<serverVars, reply, call, serVars, regVars, appVars, cacheVars, taskVars, connections,
                   connection_metadata, pending_requests, queue, sent, inflight, clock,
                   lastSweep, nextReq, lost, covered>>

(***************************************************************************)
(* The stream ends (client disconnect, error, shutdown): the finally block *)
(* of generate_sse_stream.  A drain in progress is cancelled with it.      *)
(***************************************************************************)
\* A release that spares the entry of a newer stream of the same user.
ReleaseIfOwner(conns, u, s) ==
    IF u \in DOMAIN conns /\ conns[u] = s THEN DictDel(conns, u) ELSE conns

\* A finally block that removes the metadata and leaves the queue.
LeaveConnection(conns, u, s) == conns

ReleaseConnection(conns, u, s) == DictDel(conns, u)

generate_sse_stream_finally(s) ==
    /\ s \in StreamIds
    /\ IsOpen(s)
    /\ LET u == streams[s].user IN
       /\ connections' = ReleaseConnection(connections, u, s)
       /\ connection_metadata' = DictDel(connection_metadata, u)
       /\ lost' = [x \in (DOMAIN lost) \cup {p.id : p \in Range(streams[s].drain)} |->
                      IF x \in DOMAIN lost THEN lost[x] ELSE "cancelled"]
       /\ streams' = [streams EXCEPT ![s].pc = "closed", ![s].drain = <<>>]
       /\ queue' = [queue EXCEPT ![s] = <<>>]
    /\ UNCHANGED <<serverVars, httpVars, pending_requests, sent, inflight, clock, lastSweep,
                   nextReq, covered>>

(***************************************************************************)
(* SSEMCPBridge.cleanup_old_pending_requests, as run by cleanup_task.      *)
(***************************************************************************)
RECURSIVE SeqFilterNotOlder(_, _)
SeqFilterNotOlder(s, now) ==
    IF s = <<>> THEN <<>>
    ELSE IF now - Head(s).ts <= connection_grace_period
         THEN <<Head(s)>> \o SeqFilterNotOlder(Tail(s), now)
         ELSE SeqFilterNotOlder(Tail(s), now)

KeepNotOlder(s, now) == SeqFilterNotOlder(s, now)

KeepYoung(s, now) == SeqFilterYoung(s, now)

\* a sweep that leaves the emptied entries in place
cleanup_keeping_empty_entries(pend, now) ==
    [u \in DOMAIN pend |-> KeepYoung(pend[u], now)]

cleanup_old_pending_requests(pend, now) ==
    LET filtered == [u \in DOMAIN pend |-> KeepYoung(pend[u], now)]
    IN [u \in {x \in DOMAIN pend : filtered[x] # <<>>} |-> filtered[u]]

PendingIds(pend) == UNION {{p.id : p \in Range(pend[u])} : u \in DOMAIN pend}

cleanup_task ==
    /\ sweeper = "running"
    /\ clock - lastSweep >= SweepInterval
    /\ lastSweep' = clock
    /\ pending_requests' = cleanup_old_pending_requests(pending_requests, clock)
    /\ lost' = [x \in (DOMAIN lost) \cup
                      (PendingIds(pending_requests) \ PendingIds(pending_requests')) |->
                   IF x \in DOMAIN lost THEN lost[x] ELSE "purged"]
    /\ UNCHANGED <<serverVars, httpVars, connections, connection_metadata, streams, queue, sent,
                   inflight, clock, nextReq, covered>>

(***************************************************************************)
(* Time passes.  The clock is observed in slices of one grace period: the  *)
(* thresholds the code compares against (an age of 5 s, the 10 s sleep of  *)
(* cleanup_task) are multiples of it.  The sweep is never late: time does  *)
(* not pass its due instant before it has run.  The stabilisation sleep of *)
(* a stream (0.1 s) is much shorter than a slice and ends within the       *)
(* instant it began in; steps taken at one clock value happen in the order *)
(* of the behaviour, a moment apart.                                       *)
(***************************************************************************)
TickStep == connection_grace_period

Tick ==
    /\ clock < MaxTicks * TickStep
    /\ clock - lastSweep < SweepInterval
    /\ \A s \in StreamIds : streams[s].pc # "stabilizing"
    /\ clock' = clock + TickStep
    /\ UNCHANGED <<serverVars, httpVars, connections, connection_metadata, pending_requests, streams,
                   queue, sent, inflight, lastSweep, nextReq, lost, covered>>

BridgeNext ==
    \/ \E u \in BUsers : mcp_sse_endpoint_post(u)
    \/ \E f \in inflight : process_mcp_request_done(f)
    \/ \E u \in BUsers : generate_sse_stream_open(u)
    \/ \E s \in StreamIds : process_pending_requests(s)
    \/ \E s \in StreamIds : process_pending_requests_step(s)
    \/ \E s \in StreamIds : generate_sse_stream_message(s)
    \/ \E s \in StreamIds : generate_sse_stream_finally(s)
    \/ cleanup_task
    \/ Tick

StreamNext ==
    \/ \E u \in BUsers : mcp_sse_endpoint_post(u)
    \/ \E f \in inflight : process_mcp_request_done(f)
    \/ \E u \in BUsers : generate_sse_stream_open(u)
    \/ \E s \in StreamIds : process_pending_requests(s)
    \/ \E s \in StreamIds : process_pending_requests_step(s)
    \/ \E s \in StreamIds : generate_sse_stream_message(s)
    \/ \E s \in StreamIds : generate_sse_stream_timeout(s)
    \/ \E s \in StreamIds : generate_sse_stream_finally(s)

(***************************************************************************)
(* Credentials as the bridge sees them: the Authorization header, and what *)
(* the remote identity endpoint answers for it.                            *)
(***************************************************************************)
Credentials ==
    {"missing", "bearer_ok", "bearer_bad", "token_ok", "token_bad", "raw_ok",
     "raw_bad", "raw_no_secret"}

None == "None"

\* authorization.startswith('Bearer ') / startswith('token ')
Scheme(c) ==
    IF c \in {"bearer_ok", "bearer_bad", "bearer_alias"} THEN "Bearer"
    ELSE IF c \in {"token_ok", "token_bad"} THEN "token"
    ELSE IF c = "missing" THEN "none"
    ELSE "raw"

\* The user context is derived from the e-mail address of the logged user,
\* '@' and '.' replaced by '_': bearer_alias is the valid token of another
\* user, whose address differs from the first one's in a '.' for a '_'.
_validate_auth_token(c) == IF c \in {"bearer_ok", "bearer_alias"} THEN "user_a" ELSE None

\* The user context is derived from the first ten characters of the API key.
_validate_api_key(c) == IF c \in {"token_ok", "raw_ok"} THEN "user_key" ELSE None

\* A validation that downgrades a rejected header to an anonymous user.
validate_or_anonymous(c) ==
    IF c \in {"bearer_ok"} THEN _validate_auth_token(c)
    ELSE IF c \in {"token_ok", "raw_ok"} THEN _validate_api_key(c)
    ELSE "anonymous"

validate_authorization(c) ==
    IF c = "missing" THEN None
    ELSE IF Scheme(c) = "Bearer" THEN _validate_auth_token(c)
    ELSE IF Scheme(c) = "token" THEN _validate_api_key(c)
    ELSE IF c = "raw_no_secret" THEN None
    ELSE _validate_api_key(c)

\* The header is missing, or the remote endpoint (or the environment) rejects it.
RejectedCredentials == {"missing", "bearer_bad", "token_bad", "raw_bad", "raw_no_secret"}

(***************************************************************************)
(* The body and the method of a POST.                                      *)
(***************************************************************************)
PostBodies == {"object", "malformed", "not_object"}

PostMethods == {"initialize", "tools/list", "tools/call"}

DirectMethods == {"initialize", "tools/list", "prompts/list", "resources/list"}

Reply(endpoint, status, kind) == [endpoint |-> endpoint, status |-> status, kind |-> kind]

\* The request is answered and the bridge keeps its state.
Answer(endpoint, status, kind) ==
    /\ reply' = Reply(endpoint, status, kind)
    /\ UNCHANGED <<bridgeVars, serverVars, call, fnVars>>

(***************************************************************************)
(* POST /mcp/sse, the whole handler (mcp_sse_endpoint_post).               *)
(***************************************************************************)
mcp_sse_endpoint_post_http(c, body, method) ==
    LET u == validate_authorization(c) IN
    IF u = None THEN Answer("post", 401, "invalid_or_missing")
    ELSE IF Scheme(c) # "Bearer" THEN Answer("post", 401, "invalid_format")
    ELSE IF body = "malformed" THEN Answer("post", 400, "invalid_json")
    ELSE IF body = "not_object" THEN Answer("post", 500, "internal_error")
    ELSE IF method \in DirectMethods THEN Answer("post", 200, "direct_response")
    ELSE /\ forward_or_buffer(u)
         /\ reply' = Reply("post", 202, "accepted_sse_url")
         /\ UNCHANGED <<call, fnVars>>

(***************************************************************************)
(* GET /mcp/sse, the whole handler up to the stabilisation sleep           *)
(* (mcp_sse_endpoint_get and the head of generate_sse_stream).             *)
(***************************************************************************)
mcp_sse_endpoint_get(c) ==
    LET u == validate_authorization(c) IN
    IF u = None THEN Answer("get", 401, "invalid_or_missing")
    ELSE /\ register_stream(u)
         /\ reply' = Reply("get", 200, "event_stream")
         /\ UNCHANGED <<call, fnVars>>

\* Inputs that cannot change the outcome are not enumerated twice: the body
\* is read only after the credentials are accepted, the method only in a
\* body that is a JSON object.
PostInputs(c, b, m) ==
    /\ (c \in RejectedCredentials \/ Scheme(c) # "Bearer") => b = "object"
    /\ b # "object" => m = "tools/call"

GateNext ==
    \/ \E c \in Credentials : \E b \in PostBodies : \E m \in PostMethods :
          PostInputs(c, b, m) /\ mcp_sse_endpoint_post_http(c, b, m)
    \/ \E c \in Credentials : mcp_sse_endpoint_get(c)
    \/ \E f \in inflight : process_mcp_request_done(f)
    \/ \E s \in StreamIds : process_pending_requests(s)
    \/ \E s \in StreamIds : process_pending_requests_step(s)
    \/ \E s \in StreamIds : generate_sse_stream_finally(s)

(***************************************************************************)
(* POST /mcp/messages, the whole handler (mcp_messages_endpoint).  A       *)
(* connection id is "<user context>_<8 hex digits>"; a session id is the   *)
(* empty string, a user context alone, or a full id.                       *)
(***************************************************************************)
MessageUsers == {"user_a", "user_key"}

SessionIds ==
    {[kind |-> "empty", user |-> "none", uid |-> 0]} \cup
    {[kind |-> "prefix", user |-> u, uid |-> 0] : u \in MessageUsers} \cup
    {[kind |-> "full", user |-> u, uid |-> k] : u \in MessageUsers, k \in 1 .. MaxStreams}

MessageCredentials == {"missing", "bearer_ok", "bearer_alias", "token_ok"}

\* the connection_id stored for ctx
ConnectionId(ctx) ==
    [kind |-> "full", user |-> ctx, uid |-> connection_metadata[ctx].connection_id]

\* session_id in meta.get("connection_id", ""): a substring test
session_id_in(session_id, connection_id) ==
    \/ session_id.kind = "empty"
    \/ session_id.kind = "prefix" /\ session_id.user = connection_id.user
    \/ session_id = connection_id

MessagesAnswer(session_id, c, status, kind) ==
    /\ reply' = Reply("messages", status, kind)
    /\ applied' = [fn |-> "mcp_messages", session_id |-> session_id, credential |-> c,
                   forwarded |-> FALSE]
    /\ UNCHANGED <<bridgeVars, serverVars, call, serVars, regVars, loopVars, cacheVars, taskVars>>

\* the loop takes the first entry that matches, in the order of the dict,
\* which the model does not keep: any matching entry
mcp_messages_endpoint(session_id, c, body) ==
    LET found == {ctx \in DOMAIN connection_metadata :
                     session_id_in(session_id, ConnectionId(ctx))}
    IN  IF found = {} THEN MessagesAnswer(session_id, c, 400, "invalid_session")
        ELSE \E user_context \in found :
            IF validate_authorization(c) # user_context
            THEN MessagesAnswer(session_id, c, 401, "invalid_or_missing")
            ELSE IF user_context \notin DOMAIN connections
            THEN MessagesAnswer(session_id, c, 400, "no_connection")
            ELSE IF body = "malformed" THEN MessagesAnswer(session_id, c, 400, "invalid_json")
            ELSE IF body = "not_object"
            THEN MessagesAnswer(session_id, c, 500, "internal_error")
            ELSE /\ nextReq <= MaxReqs
                 /\ nextReq' = nextReq + 1
                 /\ inflight' = inflight \cup
                        {[id |-> nextReq, user |-> user_context,
                          auth |-> connection_metadata[user_context].auth_token]}
                 /\ reply' = Reply("messages", 202, "accepted")
                 /\ applied' = [fn |-> "mcp_messages", session_id |-> session_id,
                                credential |-> c, forwarded |-> TRUE]
                 /\ UNCHANGED <<serverVars, call, serVars, regVars, loopVars, cacheVars, taskVars, connections,
                                connection_metadata, pending_requests, streams, queue,
                                sent, clock, lastSweep, lost, covered>>

\* Inputs that cannot change the outcome are not enumerated twice: the
\* credentials are read only for a session that was found, the body only
\* after the credentials were accepted.
MessageInputs(session_id, c, body) ==
    /\ (\A ctx \in DOMAIN connection_metadata :
            ~session_id_in(session_id, ConnectionId(ctx))) => c = "missing"
    /\ (\A ctx \in DOMAIN connection_metadata :
            ~session_id_in(session_id, ConnectionId(ctx)) \/ validate_authorization(c) # ctx)
                => body = "object"

MessagesNext ==
    \/ \E session_id \in SessionIds, c \in MessageCredentials, body \in PostBodies :
          MessageInputs(session_id, c, body) /\ mcp_messages_endpoint(session_id, c, body)
    \/ \E c \in Credentials : mcp_sse_endpoint_get(c)
    \/ \E f \in inflight : process_mcp_request_done(f)
    \/ \E s \in StreamIds : generate_sse_stream_finally(s)

(***************************************************************************)
(* The downstream call: SSEMCPBridge.send_to_server and the functions      *)
(* around it.  A request is [method, id]; id "absent" stands for a request  *)
(* without an id (request_data.get("id") is None).                         *)
(***************************************************************************)
BridgeMethods == {"initialize", "resources/list", "tools/call"}

BridgeIds == {"absent", "id1"}

\* What the HTTP call to the Frappe server does.
FailureOutcomes == {"network_error", "timeout", "status_500", "unparseable_body"}

DownstreamOutcomes ==
    FailureOutcomes \cup {"jsonrpc_result", "jsonrpc_in_message", "bare_value"}

\* format_error_response: the id is added only when there is one.
format_error_response(code, message, id) ==
    [kind |-> "error", code |-> code, message |-> message, id |-> id,
     capabilities |-> FALSE, origin |-> "bridge"]

\* validate_jsonrpc_response: a well-formed response gets the request's id when
\* it carries none; anything else is wrapped as the result.
validate_jsonrpc_response(wellFormed, method, id) ==
    [kind |-> "result", code |-> 0, message |-> "none", id |-> id,
     capabilities |-> wellFormed /\ method = "initialize", origin |-> "server"]

Raised == [NoResp EXCEPT !.kind = "raised"]

\* The body of the try block of send_to_server: the outcome of the HTTP call,
\* an exception included.
send_to_server_try(req, outcome) ==
    IF outcome \in {"network_error", "timeout", "unparseable_body"} THEN Raised
    ELSE IF outcome = "status_500"
         THEN format_error_response(-32603, "Server error: 500", req.id)
    ELSE validate_jsonrpc_response(outcome # "bare_value", req.method, req.id)

\* send_to_server without its except clause.
send_to_server_unguarded(req, outcome) == send_to_server_try(req, outcome)

send_to_server(req, outcome) ==
    LET r == send_to_server_try(req, outcome) IN
    IF r.kind = "raised"
    THEN format_error_response(-32603, "Internal error", req.id)
    ELSE r

DefaultCapabilities(id) ==
    [kind |-> "result", code |-> 0, message |-> "none", id |-> id,
     capabilities |-> TRUE, origin |-> "bridge_default"]

\* handle_initialization, given what send_to_server returned: the server's
\* answer when it carries capabilities, the bridge's default otherwise.
handle_initialization(req, returned) ==
    IF returned.kind = "result" /\ returned.capabilities
    THEN returned
    ELSE DefaultCapabilities(req.id)

handle_resources_list(req) ==
    [kind |-> "result", code |-> 0, message |-> "none", id |-> req.id,
     capabilities |-> FALSE, origin |-> "bridge_local"]

\* process_mcp_request up to the response, given what send_to_server returned
\* (not called for resources/list).  An exception out of send_to_server is
\* caught by handle_initialization, or by the except clause of
\* process_mcp_request.
process_mcp_request_response(req, returned) ==
    IF req.method = "initialize" THEN handle_initialization(req, returned)
    ELSE IF req.method = "resources/list" THEN handle_resources_list(req)
    ELSE IF returned.kind = "raised"
         THEN format_error_response(-32603, "Internal error", req.id)
    ELSE returned

Channel(conns, u, use_sse) ==
    IF use_sse /\ u \in DOMAIN conns THEN "sse_queue" ELSE "direct_return"

(***************************************************************************)
(* One whole call of process_mcp_request for user u.                       *)
(***************************************************************************)
process_mcp_request(u, req, outcome, use_sse) ==
    LET returned == IF req.method = "resources/list" THEN NoResp
                    ELSE send_to_server(req, outcome)
        response == process_mcp_request_response(req, returned)
        channel == Channel(connections, u, use_sse)
    IN /\ nextReq <= MaxReqs
       /\ nextReq' = nextReq + 1
       /\ queue' = IF channel = "sse_queue"
                   THEN queue_response_for_connection(connections, queue, u, response)
                   ELSE queue
       /\ call' = [user |-> u, method |-> req.method, id |-> req.id,
                   outcome |-> outcome, use_sse |-> use_sse, returned |-> returned, response |-> response,
                   channel |-> channel]
       /\ UNCHANGED <<serverVars, reply, fnVars, connections, connection_metadata,
                      pending_requests, streams, sent, inflight, clock, lastSweep,
                      lost, covered>>

\* resources/list is answered without a downstream call: one outcome is enough.
SendInputs(m, o) == m = "resources/list" => o = "jsonrpc_result"

SendNext ==
    \/ \E u \in BUsers : \E m \in BridgeMethods : \E i \in BridgeIds :
       \E o \in DownstreamOutcomes : \E sse \in BOOLEAN :
          SendInputs(m, o) /\ process_mcp_request(u, [method |-> m, id |-> i], o, sse)
    \/ \E u \in BUsers : generate_sse_stream_open(u)
    \/ \E s \in StreamIds : generate_sse_stream_finally(s)

(***************************************************************************)
(* The MCP server side: tools, plugins, users and the FAC Tool             *)
(* Configuration documents the tool registry filters by.                   *)
(***************************************************************************)
ServerTools == <<"delete_document", "extract_file_content">>

ToolNames == Range(ServerTools)

ToolPlugin == [t \in ToolNames |-> IF t = "delete_document" THEN "core" ELSE "data_science"]

Plugins == {"core", "data_science"}

requires_permission(t) == t = "extract_file_content"

ServerUsers == {"alice", "bob"}

get_roles == [u \in ServerUsers \cup {"Administrator"} |->
                 CASE u = "alice" -> {"Sales User"}
                   [] u = "bob" -> {"Purchase User"}
                   [] OTHER -> {"System Manager", "Sales User"}]

ListedRoles == {"Sales User"}

RoleAccessModes == {"Allow All", "Restrict to Listed Roles"}

ServerThreads == {1, 2}

ThreadUser == [th \in ServerThreads |-> IF th = 1 THEN "alice" ELSE "bob"]

ToolRegistry_has_tools_attribute == FALSE

(***************************************************************************)
(* core/tool_registry.py                                                   *)
(***************************************************************************)
\* The cache entry "fac_tool_registry_configs": <<>> is a miss, <<c>> a hit.
\* loadFail: the database read raises; the exception is logged and the
\* empty dictionary is returned, uncached.
_get_tool_configurations(cache, db, loadFail) ==
    IF cache # <<>> THEN cache[1]
    ELSE IF loadFail THEN EmptyDict
    ELSE db

CacheAfterLoad(cache, db, loadFail) ==
    IF cache # <<>> THEN cache
    ELSE IF loadFail THEN <<>>
    ELSE <<db>>

\* No configuration document: enabled by default.
_is_tool_enabled(configs, t) == t \notin DOMAIN configs \/ configs[t].enabled

\* "yes", "no", or "raise" when frappe.get_roles raises (rolesFail).
_check_role_access(configs, t, u, rolesFail) ==
    IF t \notin DOMAIN configs THEN "yes"
    ELSE IF configs[t].role_access_mode = "Allow All" THEN "yes"
    ELSE IF rolesFail THEN "raise"
    ELSE IF "System Manager" \in get_roles[u] THEN "yes"
    ELSE IF configs[t].role_access \cap get_roles[u] # {} THEN "yes"
    ELSE "no"

_is_tool_accessible(configs, t, u, rolesFail) ==
    IF ~_is_tool_enabled(configs, t) THEN "no"
    ELSE _check_role_access(configs, t, u, rolesFail)

\* check_permission() raises for a user without the permission; the
\* exception is caught and counts as a refusal.
_check_tool_permission(denied, t, u) ==
    IF requires_permission(t) THEN u \notin denied ELSE TRUE

\* plugin_manager.get_all_tools(): the tools of the enabled plugins.
get_all_tools(plugins) == SelectSeq(ServerTools, LAMBDA t : ToolPlugin[t] \in plugins)

\* A tool whose check raises is skipped by the per-tool try/except.
get_available_tools(configs, plugins, denied, u, rolesFail) ==
    SelectSeq(get_all_tools(plugins),
              LAMBDA t : /\ _is_tool_accessible(configs, t, u, rolesFail) = "yes"
                         /\ _check_tool_permission(denied, t, u))

\* "run", or the exception that leaves the tool function unrun.
execute_tool_check(configs, plugins, denied, t, u, rolesFail) ==
    LET acc == _is_tool_accessible(configs, t, u, rolesFail)
    IN  IF acc = "raise" THEN "raise"
        ELSE IF acc = "no" THEN "PermissionError"
        ELSE IF t \notin Range(get_all_tools(plugins)) THEN "ValueError"
        ELSE IF ~_check_tool_permission(denied, t, u) THEN "PermissionError"
        ELSE "run"

(***************************************************************************)
(* mcp/server.py: the registry is an OrderedDict keyed by tool name,       *)
(* modelled as the sequence of its keys.                                   *)
(***************************************************************************)
add_tool(reg, t) == IF t \in Range(reg) THEN reg ELSE Append(reg, t)

_handle_tools_list(reg) == reg

\* named: the name (of a tool, of a method) the text of the answer quotes.
NoToolCall == [result |-> "none", isError |-> FALSE, ran |-> "none", raised |-> FALSE,
               propagated |-> FALSE, named |-> "none"]

\* Without the try/except around the tool function.
tools_call_unguarded(reg, params, name, outcome) ==
    IF params = "null" THEN [NoToolCall EXCEPT !.propagated = TRUE]
    ELSE IF name \notin Range(reg)
    THEN [NoToolCall EXCEPT !.result = "tool_not_found", !.isError = TRUE, !.named = name]
    ELSE IF outcome = "raises"
    THEN [NoToolCall EXCEPT !.ran = name, !.raised = TRUE, !.propagated = TRUE]
    ELSE [NoToolCall EXCEPT !.result = "tool_result", !.ran = name]

\* Without the membership test: the lookup of an unknown name raises KeyError
\* before the try block.
tools_call_unchecked(reg, params, name, outcome) ==
    IF params = "null" \/ name \notin Range(reg)
    THEN [NoToolCall EXCEPT !.propagated = TRUE]
    ELSE IF outcome = "raises"
    THEN [NoToolCall EXCEPT !.result = "tool_error", !.isError = TRUE,
                            !.ran = name, !.raised = TRUE]
    ELSE [NoToolCall EXCEPT !.result = "tool_result", !.ran = name]

\* params = "null": params.get raises AttributeError before the try block.
\* A handler that calls the function named without looking the name up in
\* the registry first.
tools_call_without_lookup(reg, params, name, outcome) ==
    IF params = "null" THEN [NoToolCall EXCEPT !.propagated = TRUE]
    ELSE IF outcome = "raises"
    THEN [NoToolCall EXCEPT !.result = "tool_error", !.isError = TRUE,
                            !.ran = name, !.raised = TRUE]
    ELSE [NoToolCall EXCEPT !.result = "tool_result", !.ran = name]

_handle_tools_call(reg, params, name, outcome) ==
    IF params = "null" THEN [NoToolCall EXCEPT !.propagated = TRUE]
    ELSE IF name \notin Range(reg)
    THEN [NoToolCall EXCEPT !.result = "tool_not_found", !.isError = TRUE, !.named = name]
    ELSE IF outcome = "raises"
    THEN [NoToolCall EXCEPT !.result = "tool_error", !.isError = TRUE,
                            !.ran = name, !.raised = TRUE]
    ELSE [NoToolCall EXCEPT !.result = "tool_result", !.ran = name]

\* id: the id member of the JSON-RPC body ("none": there is no body).
NoResponse == [status |-> 0, kind |-> "none", id |-> "none", code |-> 0, result |-> "none",
               isError |-> FALSE, named |-> "none", listed |-> <<>>, ran |-> "none",
               raised |-> FALSE]

_success_response(request_id, result) ==
    [NoResponse EXCEPT !.status = 200, !.kind = "result", !.id = request_id,
                       !.result = result]

_error_response(request_id, code) ==
    [NoResponse EXCEPT !.status = 400, !.kind = "error", !.id = request_id, !.code = code]

\* An exception that leaves handle(): the framework answers with a server error.
UncaughtException == [NoResponse EXCEPT !.status = 500, !.kind = "exception"]

\* The methods that start with "notifications/".
NotificationMethods == {"notifications/initialized", "notifications/cancelled"}

\* A notification in the sense of JSON-RPC: a request without an id.
is_notification_without_id(req) == req.method \in NotificationMethods /\ req.id = "absent"

_is_notification(req) == req.method \in NotificationMethods

\* Only a request without the id member.
IdAbsent(req) == req.id = "absent"

\* data.get("id") is None: the member is absent, or null.
MissingId(req) == req.id \in {"absent", "null"}

\* A handler that looks the method up before it looks at the id.
handle_routing_before_id(reg, req, outcome) ==
    IF req.http # "POST" THEN [NoResponse EXCEPT !.status = 405, !.kind = "empty"]
    ELSE IF req.body = "malformed" THEN _error_response("null", -32700)
    ELSE IF req.body = "other" THEN UncaughtException
    ELSE IF _is_notification(req) THEN [NoResponse EXCEPT !.status = 202, !.kind = "empty"]
    ELSE IF req.method \notin {"initialize", "tools/list", "tools/call", "ping"}
    THEN [_error_response(req.id, -32601) EXCEPT !.named = req.method]
    ELSE IF MissingId(req) THEN _error_response("null", -32600)
    ELSE IF req.method = "initialize" THEN _success_response(req.id, "initialize")
    ELSE IF req.method = "tools/list"
    THEN [_success_response(req.id, "tools") EXCEPT !.listed = _handle_tools_list(reg)]
    ELSE IF req.method = "tools/call"
    THEN LET c == _handle_tools_call(reg, req.params, req.name, outcome)
         IN  IF c.propagated
             THEN [UncaughtException EXCEPT !.ran = c.ran, !.raised = c.raised]
             ELSE [_success_response(req.id, c.result) EXCEPT
                       !.isError = c.isError, !.named = c.named,
                       !.ran = c.ran, !.raised = c.raised]
    ELSE IF req.method = "ping" THEN _success_response(req.id, "empty_object")
    ELSE [_error_response(req.id, -32601) EXCEPT !.named = req.method]

\* req: [http, body, method, id, params, name]; body is "malformed" (not
\* JSON), "object" or "other" (JSON that is not an object: data.get raises).
handle(reg, req, outcome) ==
    IF req.http # "POST" THEN [NoResponse EXCEPT !.status = 405, !.kind = "empty"]
    ELSE IF req.body = "malformed" THEN _error_response("null", -32700)
    ELSE IF req.body = "other" THEN UncaughtException
    ELSE IF _is_notification(req) THEN [NoResponse EXCEPT !.status = 202, !.kind = "empty"]
    ELSE IF MissingId(req) THEN _error_response("null", -32600)
    ELSE IF req.method = "initialize" THEN _success_response(req.id, "initialize")
    ELSE IF req.method = "tools/list"
    THEN [_success_response(req.id, "tools") EXCEPT !.listed = _handle_tools_list(reg)]
    ELSE IF req.method = "tools/call"
    THEN LET c == _handle_tools_call(reg, req.params, req.name, outcome)
         IN  IF c.propagated
             THEN [UncaughtException EXCEPT !.ran = c.ran, !.raised = c.raised]
             ELSE [_success_response(req.id, c.result) EXCEPT
                       !.isError = c.isError, !.named = c.named,
                       !.ran = c.ran, !.raised = c.raised]
    ELSE IF req.method = "ping" THEN _success_response(req.id, "empty_object")
    ELSE [_error_response(req.id, -32601) EXCEPT !.named = req.method]

(***************************************************************************)
(* mcp/server.py: what a tool function returns, and its serialization by   *)
(* _handle_tools_call and _success_response.  A return value is an atom, a *)
(* list of atoms, or a dict with one key whose value is a list of atoms.   *)
(***************************************************************************)
MaxItems == 2

AtomKinds == {"str", "int", "none", "date", "decimal", "object"}

\* What json encodes without help.
NativeAtoms == {"str", "int", "none"}

\* The kinds of a dict key; json accepts str, int, float, bool and None.
KeyKinds == {"str", "int", "date", "tuple"}

SeqsUpTo(S, n) == UNION {[1 .. k -> S] : k \in 0 .. n}

ToolValues ==
    {[shape |-> "atom", key |-> "none", items |-> <<a>>] : a \in AtomKinds} \cup
    {[shape |-> "list", key |-> "none", items |-> q] : q \in SeqsUpTo(AtomKinds, MaxItems)} \cup
    {[shape |-> "dict", key |-> k, items |-> q] :
        k \in KeyKinds, q \in SeqsUpTo(AtomKinds, MaxItems)}

\* str(): the string form of a value json cannot encode.
str(a) ==
    CASE a = "date" -> "str(date)"
      [] a = "decimal" -> "str(decimal)"
      [] a = "object" -> "str(object)"
      [] OTHER -> a

\* json.dumps(v, default=...): `default` is called for the values the
\* encoder cannot encode, never for dict keys; a key that is not str, int,
\* float, bool or None raises TypeError.
json_dumps(v, default) ==
    IF v.shape = "dict" /\ v.key \notin {"str", "int"}
    THEN [raised |-> TRUE, shape |-> "none", key |-> "none", items |-> <<>>]
    ELSE IF ~default /\ \E i \in DOMAIN v.items : v.items[i] \notin NativeAtoms
    THEN [raised |-> TRUE, shape |-> "none", key |-> "none", items |-> <<>>]
    ELSE [raised |-> FALSE, shape |-> v.shape,
          key |-> IF v.shape = "dict" THEN "str" ELSE "none",
          items |-> [i \in DOMAIN v.items |-> str(v.items[i])]]

\* The try block of _handle_tools_call once the tool function has returned
\* v, and its except clause.
tool_result(v) ==
    IF v.shape = "atom" /\ v.items[1] = "str"
    THEN [isError |-> FALSE, verbatim |-> TRUE,
          text |-> [raised |-> FALSE, shape |-> "atom", key |-> "none", items |-> v.items]]
    ELSE LET d == json_dumps(v, TRUE) IN
         [isError |-> d.raised, verbatim |-> FALSE, text |-> d]

\* The envelope {jsonrpc, id, result: {content: [{type, text}], isError}}:
\* a dict with string keys over strings, a boolean and the request id.
EnvelopeValue == [shape |-> "dict", key |-> "str", items |-> <<"str", "int">>]

\* One tools/call whose tool function returns v: the result, and the
\* serialization of the envelope by _success_response.
serialize_tool_result(v) ==
    /\ ser' = [applied |-> TRUE, value |-> v, result |-> tool_result(v),
               threw |-> json_dumps(EnvelopeValue, TRUE).raised]
    /\ UNCHANGED <<bridgeVars, serverVars, reply, call, regVars, loopVars, appVars, cacheVars, taskVars>>

SerializeNext == \E v \in ToolValues : serialize_tool_result(v)

(***************************************************************************)
(* Registration: mcp/server.py, MCPServer.tool and MCPServer.add_tool.     *)
(* _tool_registry is a dict: a sequence of descriptors here, in the order  *)
(* a Python dict iterates them.                                            *)
(***************************************************************************)
MaxRegs == 3

RegNames == {"tool_x", "tool_y"}

\* description and annotations of a registration; empty annotations are
\* stored as None by the decorator
RegMetas == {[description |-> "d1", annotations |-> None],
             [description |-> "d2", annotations |-> "readOnlyHint"]}

\* the decorator's name argument with the function's __name__
DecoratorArgs == {[name |-> None, fn |-> "tool_x"], [name |-> None, fn |-> "tool_y"],
                  [name |-> "tool_x", fn |-> "tool_y"]}

IndexOf(reg, name) == CHOOSE i \in DOMAIN reg : reg[i].name = name

\* a registration that always adds an entry
tool_registry_append(reg, name, d) == Append(reg, d)

\* self._tool_registry[name] = d: a dict keeps the position of a key it
\* already holds and replaces the value
tool_registry_set(reg, name, d) ==
    IF \E i \in DOMAIN reg : reg[i].name = name
    THEN [reg EXCEPT ![IndexOf(reg, name)] = d]
    ELSE Append(reg, d)

Descriptor(name, meta) ==
    [name |-> name, description |-> meta.description, annotations |-> meta.annotations]

\* tool_spec of _handle_tools_list: annotations only when present
tool_spec(tool) ==
    IF tool.annotations # None
    THEN [name |-> tool.name, description |-> tool.description,
          annotations |-> tool.annotations]
    ELSE [name |-> tool.name, description |-> tool.description]

tools_list(reg) == [i \in DOMAIN reg |-> tool_spec(reg[i])]

Register(name, meta, via) ==
    /\ tool_registry' = tool_registry_set(tool_registry, name, Descriptor(name, meta))
    /\ registered' = Append(registered, [name |-> name, meta |-> meta, via |-> via])
    /\ UNCHANGED <<bridgeVars, serverVars, reply, call, serVars, loopVars, appVars, cacheVars, taskVars>>

tool(a, meta) ==
    LET tool_name == IF a.name # None THEN a.name ELSE a.fn
    IN  /\ Len(registered) < MaxRegs
        /\ Register(tool_name, meta, "decorator")

register_add_tool(name, meta) ==
    /\ Len(registered) < MaxRegs
    /\ Register(name, meta, "add_tool")

RegistryNext ==
    \/ \E a \in DecoratorArgs, meta \in RegMetas : tool(a, meta)
    \/ \E name \in RegNames, meta \in RegMetas : register_add_tool(name, meta)

(***************************************************************************)
(* Resources: api/handlers/resources.py.  The setting is the value of      *)
(* Assistant Core Settings.enable_resources_feature as the database gives  *)
(* it; the docs directory is docs/tools of the app.                        *)
(***************************************************************************)
SettingValues == {"1", "0", "None", "unreadable"}

DocFiles == {[stem |-> "list_documents", ext |-> ".md"],
             [stem |-> "get_document", ext |-> ".md"],
             [stem |-> "notes", ext |-> ".txt"]}

DocsDirs == {[exists |-> FALSE, files |-> {}]} \cup
            {[exists |-> TRUE, files |-> F] : F \in SUBSET DocFiles}

\* the uri parameter of resources/read: absent, empty, or scheme://part/part
Uris == {[given |-> "absent", scheme |-> "none", parts |-> <<>>],
         [given |-> "empty", scheme |-> "none", parts |-> <<>>],
         [given |-> "text", scheme |-> "http", parts |-> <<"tools", "list_documents">>],
         [given |-> "text", scheme |-> "fac", parts |-> <<"tools">>],
         [given |-> "text", scheme |-> "fac", parts |-> <<"prompts", "list_documents">>],
         [given |-> "text", scheme |-> "fac", parts |-> <<"tools", "list_documents">>],
         [given |-> "text", scheme |-> "fac", parts |-> <<"tools", "get_document">>],
         [given |-> "text", scheme |-> "fac", parts |-> <<"tools", "no_such_tool">>]}

\* bool(get_single_value(...) or 0), False when the read raises
is_resources_enabled(setting) == setting = "1"

ToolUri(tool_name) == [given |-> "text", scheme |-> "fac", parts |-> <<"tools", tool_name>>]

\* os.listdir gives no order: the resources are a set here
_get_tool_resources(docs) ==
    IF ~docs.exists THEN {}
    ELSE {[uri |-> ToolUri(f.stem), name |-> f.stem, mimeType |-> "text/markdown"] :
             f \in {g \in docs.files : g.ext = ".md"}}

get_all_resources(setting, docs) ==
    IF ~is_resources_enabled(setting) THEN {} ELSE _get_tool_resources(docs)

api_handle_resources_list(setting, docs) ==
    [raised |-> "none", resources |-> get_all_resources(setting, docs), contents |-> <<>>]

\* (category, path), or None for a uri that is not fac://category/path
_parse_uri(uri) ==
    IF uri.scheme # "fac" THEN [category |-> None, path |-> None]
    ELSE IF Len(uri.parts) < 2 THEN [category |-> None, path |-> None]
    ELSE [category |-> uri.parts[1], path |-> uri.parts[2]]

Throw == [raised |-> "ValidationError", resources |-> {}, contents |-> <<>>]

_read_tool_resource(docs, tool_name) ==
    IF ~(docs.exists /\ [stem |-> tool_name, ext |-> ".md"] \in docs.files)
    THEN Throw
    ELSE [raised |-> "none", resources |-> {},
          contents |-> <<[uri |-> ToolUri(tool_name), mimeType |-> "text/markdown",
                          text |-> tool_name]>>]

read_resource(docs, uri) ==
    LET parsed == _parse_uri(uri)
    IN  IF parsed.category = None THEN Throw
        ELSE IF parsed.category = "tools" THEN _read_tool_resource(docs, parsed.path)
        ELSE Throw

api_handle_resources_read(setting, docs, uri) ==
    IF uri.given \in {"absent", "empty"} THEN Throw ELSE read_resource(docs, uri)

resources_list(setting, docs) ==
    /\ applied' = [fn |-> "resources/list", setting |-> setting, docs |-> docs,
                   response |-> api_handle_resources_list(setting, docs)]
    /\ UNCHANGED <<bridgeVars, serverVars, reply, call, serVars, regVars, loopVars, cacheVars, taskVars>>

resources_read(setting, docs, uri) ==
    /\ applied' = [fn |-> "resources/read", setting |-> setting, docs |-> docs, uri |-> uri,
                   response |-> api_handle_resources_read(setting, docs, uri)]
    /\ UNCHANGED <<bridgeVars, serverVars, reply, call, serVars, regVars, loopVars, cacheVars, taskVars>>

ResourcesNext ==
    \/ \E setting \in SettingValues, docs \in DocsDirs : resources_list(setting, docs)
    \/ \E setting \in SettingValues, docs \in DocsDirs, uri \in Uris :
          resources_read(setting, docs, uri)

(***************************************************************************)
(* MCPServer._generate_input_schema: the schema inferred from a function's *)
(* signature.  A parameter is its name, kind, default (empty when it has   *)
(* none) and annotation.                                                   *)
(***************************************************************************)
MaxParams == 2

\* An annotation of a parameter: Parameter.empty, a type object (by its
\* name), an object that cannot be hashed (a list such as [int]), or a string
\* (its characters).
EmptyAnnotation == [kind |-> "empty", name |-> "Parameter.empty", text |-> <<>>]

TypeObject(n) == [kind |-> "type", name |-> n, text |-> <<>>]

UnhashableAnnotation == [kind |-> "unhashable", name |-> "[int]", text |-> <<>>]

StringAnnotation(text) == [kind |-> "string", name |-> "str", text |-> text]

UpperCase == <<"A", "B", "C", "D", "E", "F", "G", "H", "I", "J", "K", "L", "M", "N", "O", "P", "Q", "R", "S", "T", "U", "V", "W", "X", "Y", "Z">>

LowerCase == <<"a", "b", "c", "d", "e", "f", "g", "h", "i", "j", "k", "l", "m", "n", "o", "p", "q", "r", "s", "t", "u", "v", "w", "x", "y", "z">>

\* str.lower()
lower(text) ==
    [i \in DOMAIN text |->
        IF \E k \in DOMAIN UpperCase : UpperCase[k] = text[i]
        THEN LowerCase[CHOOSE k \in DOMAIN UpperCase : UpperCase[k] = text[i]]
        ELSE text[i]]

\* needle in text
contains(needle, text) ==
    \E i \in 0 .. (Len(text) - Len(needle)) : SubSeq(text, i + 1, i + Len(needle)) = needle

ParamNames == {"doctype", "limit"}

Parameters ==
    {[name |-> n, kind |-> "keyword_only", default |-> d, annotation |-> a] :
        n \in ParamNames, d \in {"empty", "None", "value"},
        a \in {EmptyAnnotation, TypeObject("int"), TypeObject("str")}}
    \cup {[name |-> "kwargs", kind |-> "var_keyword", default |-> "empty",
           annotation |-> EmptyAnnotation]}

\* the signatures Python accepts: names differ, **kwargs comes last
Signatures ==
    {sig \in SeqsUpTo(Parameters, MaxParams) :
        /\ \A i, j \in DOMAIN sig : i # j => sig[i].name # sig[j].name
        /\ \A i \in DOMAIN sig : sig[i].kind = "var_keyword" => i = Len(sig)}

\* type_map: the type objects that are its keys.
type_map ==
    [n \in {"str", "int", "float", "bool", "dict", "list", "typing.Dict"} |->
        CASE n = "str" -> "string"
          [] n = "int" -> "integer"
          [] n = "float" -> "number"
          [] n = "bool" -> "boolean"
          [] n = "list" -> "array"
          [] OTHER -> "object"]

\* "raise": the TypeError of type_map.get() for an annotation that cannot be
\* hashed.  A string annotation that matches no test is looked up in
\* type_map, which has no string key.
_get_json_type(annotation) ==
    IF annotation.kind = "empty" THEN "string"
    ELSE IF annotation.kind = "string"
    THEN LET lower_ann == lower(annotation.text)
         IN  IF contains(<<"s", "t", "r">>, lower_ann) THEN "string"
             ELSE IF contains(<<"i", "n", "t">>, lower_ann) THEN "integer"
             ELSE IF contains(<<"f", "l", "o", "a", "t">>, lower_ann) \/ contains(<<"n", "u", "m", "b", "e", "r">>, lower_ann)
             THEN "number"
             ELSE IF contains(<<"b", "o", "o", "l">>, lower_ann) THEN "boolean"
             ELSE IF contains(<<"d", "i", "c", "t">>, lower_ann) \/ contains(<<"o", "b", "j", "e", "c", "t">>, lower_ann)
             THEN "object"
             ELSE IF contains(<<"l", "i", "s", "t">>, lower_ann) \/ contains(<<"a", "r", "r", "a", "y">>, lower_ann)
             THEN "array"
             ELSE "string"
    ELSE IF annotation.kind = "unhashable" THEN "raise"
    ELSE IF annotation.name \in DOMAIN type_map THEN type_map[annotation.name]
    ELSE "string"

\* a test that takes a default of None for no default
default_is_falsy(param) == param.default \in {"empty", "None"}

\* param.default == Parameter.empty
has_no_default(param) == param.default = "empty"

RECURSIVE required_of(_)
required_of(sig) ==
    IF sig = <<>> THEN <<>>
    ELSE (IF has_no_default(Head(sig)) THEN <<Head(sig).name>> ELSE <<>>)
             \o required_of(Tail(sig))

_generate_input_schema(sig) ==
    [type |-> "object",
     properties |-> [n \in {sig[i].name : i \in DOMAIN sig} |->
                        [type |-> _get_json_type(
                            (CHOOSE p \in Range(sig) : p.name = n).annotation)]],
     required |-> required_of(sig)]

generate_input_schema(sig) ==
    /\ applied' = [fn |-> "_generate_input_schema", sig |-> sig,
                   schema |-> _generate_input_schema(sig)]
    /\ UNCHANGED <<bridgeVars, serverVars, reply, call, serVars, regVars, loopVars, cacheVars, taskVars>>

SchemaNext == \E sig \in Signatures : generate_input_schema(sig)

\* The annotations the mapping is applied to.  Words: names of types as they
\* are written in string annotations, in lower case and capitalised, alone
\* and as the argument of a generic.
TypeWords ==
    {<<"s", "t", "r">>,
     <<"s", "t", "r", "i", "n", "g">>,
     <<"i", "n", "t">>,
     <<"i", "n", "t", "e", "g", "e", "r">>,
     <<"f", "l", "o", "a", "t">>,
     <<"n", "u", "m", "b", "e", "r">>,
     <<"b", "o", "o", "l">>,
     <<"b", "o", "o", "l", "e", "a", "n">>,
     <<"d", "i", "c", "t">>,
     <<"o", "b", "j", "e", "c", "t">>,
     <<"l", "i", "s", "t">>,
     <<"a", "r", "r", "a", "y">>,
     <<"a", "n", "y">>,
     <<"p", "o", "i", "n", "t">>}

capitalize(w) == <<UpperCase[CHOOSE k \in DOMAIN LowerCase : LowerCase[k] = w[1]]>> \o Tail(w)

Generics ==
    {<<"L", "i", "s", "t">>,
     <<"l", "i", "s", "t">>,
     <<"D", "i", "c", "t">>,
     <<"d", "i", "c", "t">>,
     <<"O", "p", "t", "i", "o", "n", "a", "l">>}

generic(g, w) == g \o <<"[">> \o w \o <<"]">>

AnnotationTexts ==
    TypeWords \cup {capitalize(w) : w \in TypeWords}
              \cup {generic(g, w) : g \in Generics, w \in TypeWords}

TypeObjects ==
    {"str", "int", "float", "bool", "dict", "list", "typing.Dict", "typing.List", "datetime"}

Annotations ==
    {EmptyAnnotation, UnhashableAnnotation} \cup {TypeObject(n) : n \in TypeObjects}
        \cup {StringAnnotation(t) : t \in AnnotationTexts}

get_json_type(annotation) ==
    /\ applied' = [fn |-> "_get_json_type", annotation |-> annotation,
                   type |-> _get_json_type(annotation)]
    /\ UNCHANGED <<bridgeVars, serverVars, reply, call, serVars, regVars, loopVars, cacheVars,
                   taskVars>>

TypesNext == \E annotation \in Annotations : get_json_type(annotation)

(***************************************************************************)
(* The endpoints: api/fac_endpoint.py and api/mcp_endpoint.py each own a   *)
(* module-level MCPServer.                                                 *)
(***************************************************************************)
RECURSIVE RegisterAll(_, _)
RegisterAll(reg, todo) ==
    IF todo = <<>> THEN reg
    ELSE RegisterAll(add_tool(reg, Head(todo)), Tail(todo))

\* fac_endpoint._import_tools: clear, then register the available tools.
fac_import_tools(reg, available) == RegisterAll(<<>>, available)

\* mcp_endpoint._import_tools: iterates registry._tools, an attribute the
\* ToolRegistry does not have; the AttributeError is logged and swallowed.
mcp_import_tools(reg) ==
    IF ToolRegistry_has_tools_attribute THEN RegisterAll(reg, ServerTools) ELSE reg

\* An Authorization header: its scheme as written, and what the OAuth Bearer
\* Token table holds for its token.
Authorization(scheme, token) == [scheme |-> scheme, token |-> token]

Req(method, name) == [http |-> "POST", body |-> "object", method |-> method,
                      id |-> "id1", params |-> "dict", name |-> name,
                      authorization |-> Authorization("Bearer ", "Active")]

\* The requests the protocol handler is explored with: every method with
\* every id and params, a tool name where the method takes one, and the
\* requests that never reach the routing.
ProtocolMethods ==
    {"initialize", "tools/list", "tools/call", "ping", "no_such_method"} \cup
    NotificationMethods

RequestIds == {"absent", "null", "id1"}

ProtocolRequests ==
    {[Req(m, n) EXCEPT !.id = i, !.params = p] :
        m \in ProtocolMethods \ {"tools/call"}, n \in {"none"},
        i \in RequestIds, p \in {"dict", "null"}} \cup
    {[Req("tools/call", n) EXCEPT !.id = i, !.params = p] :
        n \in {"delete_document", "no_such_tool"},
        i \in RequestIds, p \in {"dict", "null"}} \cup
    {[Req("none", "none") EXCEPT !.body = b] : b \in {"malformed", "other"}} \cup
    {[Req("tools/list", "none") EXCEPT !.http = "GET"]}

ServerRequests ==
    {Req("tools/list", "none")} \cup
    {Req("tools/call", n) : n \in ToolNames \cup {"no_such_tool"}}

ToolOutcomes == {"returns", "raises"}

NoLast == [endpoint |-> "none", user |-> "none", req |-> Req("none", "none"),
           resp |-> NoResponse, available |-> <<>>, loadFailed |-> FALSE]

IdleThread == [pc |-> "idle", req |-> Req("none", "none"), todo |-> <<>>, resp |-> NoResponse]

ServerInit ==
    /\ tool_configs = EmptyDict
    /\ config_cache = <<>>
    /\ plugin_enabled = Plugins
    /\ perm_denied = {"bob"}
    /\ fac_registry = <<>>
    /\ mcp_registry = <<>>
    /\ last = NoLast
    /\ threads = [th \in ServerThreads |-> IdleThread]

\* One request to fac_endpoint.handle_mcp by an authenticated user with the
\* assistant enabled, served alone: _import_tools, then MCPServer.handle.
fac_handle_mcp(u, req, outcome, loadFail, rolesFail) ==
    LET configs == _get_tool_configurations(config_cache, tool_configs, loadFail)
        avail == get_available_tools(configs, plugin_enabled, perm_denied, u, rolesFail)
        reg == fac_import_tools(fac_registry, avail)
    IN  /\ fac_registry' = reg
        /\ config_cache' = IF get_all_tools(plugin_enabled) = <<>> THEN config_cache
                           ELSE CacheAfterLoad(config_cache, tool_configs, loadFail)
        /\ last' = [endpoint |-> "fac_endpoint", user |-> u, req |-> req,
                    resp |-> handle(reg, req, outcome), available |-> avail,
                    loadFailed |-> (config_cache = <<>> /\ loadFail)]
        /\ UNCHANGED <<bridgeVars, httpVars, tool_configs, plugin_enabled, perm_denied,
                       mcp_registry, threads>>

\* One request to mcp_endpoint.handle_mcp, served alone.
mcp_handle_mcp(u, req, outcome) ==
    LET configs == _get_tool_configurations(config_cache, tool_configs, FALSE)
        reg == mcp_import_tools(mcp_registry)
    IN  /\ mcp_registry' = reg
        /\ last' = [endpoint |-> "mcp_endpoint", user |-> u, req |-> req,
                    resp |-> handle(reg, req, outcome),
                    available |-> get_available_tools(configs, plugin_enabled,
                                                      perm_denied, u, FALSE),
                    loadFailed |-> FALSE]
        /\ UNCHANGED <<bridgeVars, httpVars, tool_configs, config_cache, plugin_enabled, perm_denied,
                       fac_registry, threads>>

\* ToolRegistry.execute_tool for the session user.
execute_tool(u, t, outcome, loadFail, rolesFail) ==
    LET configs == _get_tool_configurations(config_cache, tool_configs, loadFail)
        check == execute_tool_check(configs, plugin_enabled, perm_denied, t, u, rolesFail)
    IN  /\ config_cache' = CacheAfterLoad(config_cache, tool_configs, loadFail)
        /\ last' = [endpoint |-> "execute_tool", user |-> u, req |-> Req("tools/call", t),
                    resp |-> IF check = "run"
                             THEN [NoResponse EXCEPT !.kind = IF outcome = "raises"
                                                              THEN "exception" ELSE "result",
                                                     !.ran = t,
                                                     !.raised = (outcome = "raises")]
                             ELSE [NoResponse EXCEPT !.kind = "exception"],
                    available |-> <<>>,
                    loadFailed |-> (config_cache = <<>> /\ loadFail)]
        /\ UNCHANGED <<bridgeVars, httpVars, tool_configs, plugin_enabled, perm_denied, fac_registry,
                       mcp_registry, threads>>

(***************************************************************************)
(* api/admin_api.py and the environment.                                   *)
(***************************************************************************)
NewToolConfiguration(enabled) ==
    [enabled |-> enabled, role_access_mode |-> "Allow All", role_access |-> {}]

clear_cache == <<>>

toggle_tool(t, enabled) ==
    /\ t \in Range(get_all_tools(plugin_enabled))
    /\ tool_configs' = IF t \in DOMAIN tool_configs
                       THEN [tool_configs EXCEPT ![t].enabled = enabled]
                       ELSE DictSet(tool_configs, t, NewToolConfiguration(enabled))
    /\ config_cache' = clear_cache
    /\ last' = NoLast
    /\ UNCHANGED <<bridgeVars, httpVars, plugin_enabled, perm_denied, fac_registry, mcp_registry,
                   threads>>

\* roles: the roles of the rows with allow_access set. The document's
\* validate() refuses the restricted mode with no role row.
update_tool_role_access(t, mode, roles) ==
    LET old == IF t \in DOMAIN tool_configs THEN tool_configs[t]
               ELSE NewToolConfiguration(TRUE)
        new == [old EXCEPT !.role_access_mode = mode,
                           !.role_access = IF mode = "Restrict to Listed Roles" /\ roles # {}
                                           THEN roles ELSE old.role_access]
    IN  /\ t \in Range(get_all_tools(plugin_enabled))
        /\ ~(new.role_access_mode = "Restrict to Listed Roles" /\ new.role_access = {})
        /\ tool_configs' = DictSet(tool_configs, t, new)
        /\ config_cache' = clear_cache
        /\ last' = NoLast
        /\ UNCHANGED <<bridgeVars, httpVars, plugin_enabled, perm_denied, fac_registry,
                       mcp_registry, threads>>

toggle_plugin(p, enable) ==
    /\ plugin_enabled' = IF enable THEN plugin_enabled \cup {p} ELSE plugin_enabled \ {p}
    /\ last' = NoLast
    /\ UNCHANGED <<bridgeVars, httpVars, tool_configs, config_cache, perm_denied, fac_registry,
                   mcp_registry, threads>>

\* The cached configurations expire (expires_in_sec=60).
CacheExpire ==
    /\ config_cache # <<>>
    /\ config_cache' = <<>>
    /\ last' = NoLast
    /\ UNCHANGED <<bridgeVars, httpVars, tool_configs, plugin_enabled, perm_denied, fac_registry,
                   mcp_registry, threads>>

\* The inputs the administration actions are explored with.
RoleManagedTools == {"delete_document"}

ToggledPlugins == {"data_science"}

\* Inputs that cannot change the outcome are not enumerated twice: a tool
\* outcome needs a tools/call, a failing load needs a cache miss.
RequestInputs(req, o, lf) ==
    /\ (o = "raises" => req.method = "tools/call")
    /\ (lf => config_cache = <<>>)

ServerNext ==
    \/ \E u \in ServerUsers, req \in ServerRequests, o \in ToolOutcomes, lf, rf \in BOOLEAN :
           RequestInputs(req, o, lf) /\ fac_handle_mcp(u, req, o, lf, rf)
    \/ \E u \in ServerUsers, req \in ServerRequests, o \in ToolOutcomes :
           RequestInputs(req, o, FALSE) /\ mcp_handle_mcp(u, req, o)
    \/ \E u \in ServerUsers, t \in ToolNames, o \in ToolOutcomes, lf, rf \in BOOLEAN :
           RequestInputs(Req("tools/call", t), o, lf) /\ execute_tool(u, t, o, lf, rf)
    \/ \E t \in ToolNames, e \in BOOLEAN : toggle_tool(t, e)
    \/ \E t \in RoleManagedTools, m \in RoleAccessModes, r \in SUBSET ListedRoles :
           update_tool_role_access(t, m, r)
    \/ \E p \in ToggledPlugins, e \in BOOLEAN : toggle_plugin(p, e)
    \/ CacheExpire

\* fac_endpoint.handle_mcp under every request the protocol handler can be sent.
HandleNext ==
    \/ \E u \in ServerUsers, req \in ProtocolRequests, o \in ToolOutcomes :
           RequestInputs(req, o, FALSE) /\ fac_handle_mcp(u, req, o, FALSE, FALSE)
    \/ \E p \in ToggledPlugins, e \in BOOLEAN : toggle_plugin(p, e)
    \/ \E t \in ToolNames, e \in BOOLEAN : toggle_tool(t, e)

(***************************************************************************)
(* Requests to fac_endpoint.handle_mcp served by concurrent threads of one *)
(* worker process: every thread works on the one module-level registry,    *)
(* and a thread switch can happen between any two statements.              *)
(***************************************************************************)
ConcRequests == {Req("tools/list", "none")} \cup {Req("tools/call", n) : n \in ToolNames}

RestrictedToListed ==
    [t \in {"delete_document"} |->
        [enabled |-> TRUE, role_access_mode |-> "Restrict to Listed Roles",
         role_access |-> ListedRoles]]

ConcInit ==
    /\ tool_configs \in {EmptyDict, RestrictedToListed}
    /\ config_cache = <<>>
    /\ plugin_enabled = Plugins
    /\ perm_denied \in SUBSET ServerUsers
    /\ fac_registry = <<>>
    /\ mcp_registry = <<>>
    /\ last = NoLast
    /\ threads = [th \in ServerThreads |-> IdleThread]

\* The request of ThreadUser[th] passed the authentication checks.
fac_thread_begin(th, req) ==
    /\ threads[th].pc = "idle"
    /\ threads' = [threads EXCEPT ![th] = [IdleThread EXCEPT !.pc = "clear", !.req = req]]
    /\ UNCHANGED <<bridgeVars, httpVars, tool_configs, config_cache, plugin_enabled, perm_denied,
                   fac_registry,
                   mcp_registry, last>>

\* mcp._tool_registry.clear(), then registry.get_available_tools(user), which
\* does not touch the MCP registry.
fac_thread_clear(th) ==
    LET configs == _get_tool_configurations(config_cache, tool_configs, FALSE)
    IN  /\ threads[th].pc = "clear"
        /\ fac_registry' = <<>>
        /\ config_cache' = CacheAfterLoad(config_cache, tool_configs, FALSE)
        /\ threads' = [threads EXCEPT
               ![th].pc = "register",
               ![th].todo = get_available_tools(configs, plugin_enabled, perm_denied,
                                                ThreadUser[th], FALSE)]
        /\ UNCHANGED <<bridgeVars, httpVars, tool_configs, plugin_enabled, perm_denied,
                       mcp_registry, last>>

\* One turn of the registration loop: register_base_tool -> add_tool.
fac_thread_register(th) ==
    /\ threads[th].pc = "register"
    /\ threads[th].todo # <<>>
    /\ fac_registry' = add_tool(fac_registry, Head(threads[th].todo))
    /\ threads' = [threads EXCEPT ![th].todo = Tail(@)]
    /\ UNCHANGED <<bridgeVars, httpVars, tool_configs, config_cache, plugin_enabled, perm_denied,
                   mcp_registry, last>>

\* handle_mcp returned None: the wrapper calls MCPServer.handle.
fac_thread_handle(th) ==
    /\ threads[th].pc = "register"
    /\ threads[th].todo = <<>>
    /\ threads' = [threads EXCEPT ![th].pc = "done",
                                  ![th].resp = handle(fac_registry, threads[th].req, "returns")]
    /\ UNCHANGED <<bridgeVars, httpVars, tool_configs, config_cache, plugin_enabled, perm_denied,
                   fac_registry,
                   mcp_registry, last>>

\* The response is sent; the thread takes its next request.
fac_thread_return(th) ==
    /\ threads[th].pc = "done"
    /\ threads' = [threads EXCEPT ![th] = IdleThread]
    /\ UNCHANGED <<bridgeVars, httpVars, tool_configs, config_cache, plugin_enabled, perm_denied,
                   fac_registry,
                   mcp_registry, last>>

ConcNext ==
    \/ \E th \in ServerThreads, req \in ConcRequests : fac_thread_begin(th, req)
    \/ \E th \in ServerThreads : fac_thread_clear(th)
    \/ \E th \in ServerThreads : fac_thread_register(th)
    \/ \E th \in ServerThreads : fac_thread_handle(th)
    \/ \E th \in ServerThreads : fac_thread_return(th)

(***************************************************************************)
(* Specifications.  Spec: the bridge alone.  SpecServer: the server, one   *)
(* request at a time.  SpecConc: the server's fac endpoint with two        *)
(* concurrent request threads.                                             *)
(***************************************************************************)
Init == BridgeInit /\ ServerInit

Next == BridgeNext

Spec == Init /\ [][Next]_vars

SpecServer == Init /\ [][ServerNext]_vars

InitConc == BridgeInit /\ ConcInit

SpecConc == InitConc /\ [][ConcNext]_vars

(***************************************************************************)
(* The configuration cache under concurrent requests.  A call of           *)
(* get_available_tools() or execute_tool() first obtains the               *)
(* configurations (_get_tool_configurations): the shared cache is read,    *)
(* and on a miss the database is read and the result is written to the     *)
(* cache in a later step.  Configuration changes (toggle_tool,             *)
(* update_tool_role_access) commit and clear the cache between any two     *)
(* steps of a request.                                                     *)
(***************************************************************************)
\* frappe.cache.get_value(); on a miss, the reads of the database.
_get_tool_configurations_begin(th) ==
    /\ loads[th].pc = "idle"
    /\ loads' = [loads EXCEPT ![th] =
                    [pc |-> "loaded", hit |-> config_cache # <<>>,
                     configs |-> _get_tool_configurations(config_cache, tool_configs, FALSE),
                     db |-> tool_configs]]
    /\ UNCHANGED <<bridgeVars, serverVars, reply, call, serVars, regVars, loopVars, appVars,
                   taskVars>>

\* On a miss, frappe.cache.set_value(); then the accessibility of every tool
\* is decided from the configurations obtained.
get_available_tools_finish(th) ==
    /\ loads[th].pc = "loaded"
    /\ config_cache' = IF loads[th].hit THEN config_cache ELSE <<loads[th].configs>>
    /\ last' = [NoLast EXCEPT !.endpoint = "get_available_tools",
                              !.user = ThreadUser[th],
                              !.req = Req("tools/list", "none"),
                              !.available = get_available_tools(loads[th].configs, plugin_enabled,
                                                                perm_denied, ThreadUser[th],
                                                                FALSE)]
    /\ loads' = [loads EXCEPT ![th] = IdleLoad]
    /\ UNCHANGED <<bridgeVars, reply, call, serVars, regVars, loopVars, appVars, taskVars,
                   tool_configs, plugin_enabled, perm_denied, fac_registry, mcp_registry,
                   threads>>

CacheNext ==
    \/ \E th \in ServerThreads : _get_tool_configurations_begin(th)
    \/ \E th \in ServerThreads : get_available_tools_finish(th)
    \/ \E t \in RoleManagedTools, e \in BOOLEAN : toggle_tool(t, e)
    \/ \E t \in RoleManagedTools, m \in RoleAccessModes, r \in SUBSET ListedRoles :
           update_tool_role_access(t, m, r)
    \/ CacheExpire

SpecCache == Init /\ [][CacheNext]_vars

\* Thread th's call of the registry returns in this step.
Decides(th) == loads[th].pc = "loaded" /\ loads'[th].pc = "idle"

\* No configuration change has completed since the call began, so every
\* completed change precedes the call.
BeganAfterChanges(th) == loads[th].db = tool_configs

\* C31: a call of the registry that begins after a configuration change has
\* completed decides which tools are accessible from the new configuration,
\* also when another request was reloading the cache during the change.
C31_DecidesFromNewConfiguration ==
    [][\A th \in ServerThreads :
          Decides(th) /\ BeganAfterChanges(th)
              => last'.available = get_available_tools(tool_configs, plugin_enabled,
                                                       perm_denied, ThreadUser[th], FALSE)]_vars

(***************************************************************************)
(* The protocol endpoint with its authentication: fac_endpoint.handle_mcp  *)
(* as run by the wrapper of MCPServer.register.                            *)
(***************************************************************************)
AuthSchemes == {"", "Basic ", "bearer ", "Bearer "}

TokenStates == {"unknown", "Revoked", "expired", "Active"}

\* users whose assistant_enabled field is 1, 0 and unset
AuthUsers == {"alice", "carol", "dave"}

assistant_enabled == [u \in AuthUsers |-> CASE u = "alice" -> "1"
                                            [] u = "carol" -> "0"
                                            [] OTHER -> "None"]

_check_assistant_enabled(u) == assistant_enabled[u] = "1"

\* A check that looks at the scheme only.
authenticate_scheme_only(authorization) ==
    IF authorization.scheme # "Bearer " THEN "unauthorized" ELSE "ok"

\* auth_header.startswith("Bearer "), then the token's row: DoesNotExistError
\* for no row, AuthenticationError for a status other than Active and for an
\* expiration time in the past; each ends in a 401 response.
authenticate(authorization) ==
    IF authorization.scheme # "Bearer " THEN "unauthorized"
    ELSE IF authorization.token = "unknown" THEN "token_not_found"
    ELSE IF authorization.token # "Active" THEN "invalid_token"
    ELSE "ok"

\* One request to the endpoint: fn(), and handle() when fn() returned None.
handle_mcp(u, req, outcome) ==
    /\ u \in AuthUsers
    /\ IF authenticate(req.authorization) # "ok"
       THEN /\ last' = [NoLast EXCEPT !.endpoint = "fac_endpoint", !.user = "Guest", !.req = req,
                                      !.resp = [NoResponse EXCEPT !.status = 401,
                                                                  !.kind = "unauthorized",
                                                                  !.result = authenticate(req.authorization)]]
            /\ UNCHANGED <<bridgeVars, httpVars, tool_configs, config_cache, plugin_enabled,
                           perm_denied, fac_registry, mcp_registry, threads>>
       ELSE IF ~_check_assistant_enabled(u)
       THEN /\ last' = [NoLast EXCEPT !.endpoint = "fac_endpoint", !.user = u, !.req = req,
                                      !.resp = [NoResponse EXCEPT !.status = 403,
                                                                  !.kind = "exception"]]
            /\ UNCHANGED <<bridgeVars, httpVars, tool_configs, config_cache, plugin_enabled,
                           perm_denied, fac_registry, mcp_registry, threads>>
       ELSE fac_handle_mcp(u, req, outcome, FALSE, FALSE)

AuthRequests ==
    {[Req(m, n) EXCEPT !.authorization = Authorization(s, t)] :
        m \in {"tools/call"}, n \in {"delete_document", "extract_file_content"},
        s \in AuthSchemes, t \in TokenStates} \cup
    {[Req("tools/list", "none") EXCEPT !.authorization = Authorization(s, t)] :
        s \in AuthSchemes, t \in TokenStates}

\* A header without the Bearer scheme has no token to look up.
AuthInputs(req, o) ==
    /\ RequestInputs(req, o, FALSE)
    /\ (req.authorization.scheme # "Bearer " => req.authorization.token = "unknown")
    /\ (authenticate(req.authorization) # "ok" => o = "returns")

AuthNext ==
    \/ \E u \in AuthUsers, req \in AuthRequests, o \in ToolOutcomes :
           AuthInputs(req, o) /\ handle_mcp(u, req, o)
    \/ \E t \in ToolNames, e \in BOOLEAN : toggle_tool(t, e)
    \/ CacheExpire

SpecAuth == Init /\ [][AuthNext]_vars

(***************************************************************************)
(* The two accessibility checks: ToolRegistry._is_tool_accessible, on the  *)
(* configurations the registry loads, and the document's own               *)
(* FACToolConfiguration.user_has_access.                                   *)
(***************************************************************************)
MaxRows == 2

\* the rows of the child table FAC Tool Role Access
RoleAccessRows ==
    {[role |-> r, allow_access |-> a] : r \in {"Sales User", "Purchase User"}, a \in {0, 1}}

\* FAC Tool Configuration documents of one tool
Documents ==
    {[enabled |-> e, role_access_mode |-> m, role_access |-> rows] :
        e \in {0, 1}, m \in RoleAccessModes, rows \in SeqsUpTo(RoleAccessRows, MaxRows)}

AccessUsers == ServerUsers \cup {"Administrator"}

\* What _get_tool_configurations makes of a document: bool(enabled), the
\* mode, and of the rows the roles that _check_role_access can match, the
\* ones with allow_access set.
LoadedConfiguration(doc) ==
    [enabled |-> doc.enabled # 0,
     role_access_mode |-> doc.role_access_mode,
     role_access |-> {row.role : row \in {x \in Range(doc.role_access) : x.allow_access # 0}}]

\* A check that takes a listed role for an allowed one.
user_has_listed_role(doc, u) ==
    IF doc.enabled = 0 THEN FALSE
    ELSE IF doc.role_access_mode = "Allow All" THEN TRUE
    ELSE IF "System Manager" \in get_roles[u] THEN TRUE
    ELSE \E i \in DOMAIN doc.role_access : doc.role_access[i].role \in get_roles[u]

user_has_access(doc, u) ==
    IF doc.enabled = 0 THEN FALSE
    ELSE IF doc.role_access_mode = "Allow All" THEN TRUE
    ELSE IF "System Manager" \in get_roles[u] THEN TRUE
    ELSE \E i \in DOMAIN doc.role_access :
            /\ doc.role_access[i].role \in get_roles[u]
            /\ doc.role_access[i].allow_access # 0

check_access(doc, u) ==
    /\ applied' = [fn |-> "user_has_access", doc |-> doc, user |-> u,
                   document |-> user_has_access(doc, u),
                   registry |-> _is_tool_accessible([t \in {"delete_document"} |->
                                                        LoadedConfiguration(doc)],
                                                    "delete_document", u, FALSE)]
    /\ UNCHANGED <<bridgeVars, serverVars, reply, call, serVars, regVars, loopVars, cacheVars,
                   taskVars>>

AccessNext == \E doc \in Documents, u \in AccessUsers : check_access(doc, u)

SpecAccess == Init /\ [][AccessNext]_vars

SpecTypes == Init /\ [][TypesNext]_vars

\* SpecLive: the bridge, with the steps that need no outside event taken
\* eventually: a downstream call returns (httpx timeout of 30 s), the 0.1 s
\* sleep ends, the stream loop wakes up on a queued response.  Requests,
\* stream opens and stream closes come from outside and are not forced.
BridgeFairness ==
    /\ WF_vars(\E f \in inflight : process_mcp_request_done(f))
    /\ \A s \in 1 .. MaxStreams :
          /\ WF_vars(process_pending_requests(s))
          /\ WF_vars(process_pending_requests_step(s))
          /\ WF_vars(generate_sse_stream_message(s))

SpecLive == Spec /\ BridgeFairness

\* cleanup_task sleeps 10 s and sweeps, for ever; time passes
(***************************************************************************)
(* The cleanup task when one run of the sweep throws.  cleanup_task() is   *)
(* `while True: sleep(10); cleanup_old_pending_requests()` with no handler *)
(* around the call: the exception ends the coroutine, and the task that    *)
(* lifespan() created is not started again.  The run that throws has       *)
(* cleaned the buffers or has not.                                         *)
(***************************************************************************)
MaxFaultTicks == 4

cleanup_task_raises(cleaned) ==
    /\ sweeper = "running"
    /\ clock - lastSweep >= SweepInterval
    /\ sweeper' = "failed"
    /\ pending_requests' = IF cleaned
                           THEN cleanup_old_pending_requests(pending_requests, clock)
                           ELSE pending_requests
    /\ lost' = [x \in (DOMAIN lost) \cup
                      (PendingIds(pending_requests) \ PendingIds(pending_requests')) |->
                   IF x \in DOMAIN lost THEN lost[x] ELSE "purged"]
    /\ UNCHANGED <<serverVars, reply, call, serVars, regVars, loopVars, appVars, cacheVars,
                   connections, connection_metadata, streams, queue, sent, inflight, clock,
                   lastSweep, nextReq, covered>>

\* Time passes with no sweep due, the task having ended.
TickAfterFault ==
    /\ sweeper = "failed"
    /\ clock < MaxFaultTicks * TickStep
    /\ \A s \in StreamIds : streams[s].pc # "stabilizing"
    /\ clock' = clock + TickStep
    /\ UNCHANGED <<serverVars, httpVars, connections, connection_metadata, pending_requests,
                   streams, queue, sent, inflight, lastSweep, nextReq, lost, covered>>

FaultNext ==
    \/ \E u \in BUsers : mcp_sse_endpoint_post(u)
    \/ \E f \in inflight : process_mcp_request_done(f)
    \/ \E u \in BUsers : generate_sse_stream_open(u)
    \/ \E s \in StreamIds : process_pending_requests(s)
    \/ \E s \in StreamIds : process_pending_requests_step(s)
    \/ \E s \in StreamIds : generate_sse_stream_finally(s)
    \/ cleanup_task
    \/ Tick
    \/ \E cleaned \in BOOLEAN : cleanup_task_raises(cleaned)
    \/ TickAfterFault

\* The sleeps end and a sweep that is due runs, as long as the task lives.
FaultFairness == WF_vars(Tick) /\ WF_vars(TickAfterFault) /\ WF_vars(cleanup_task)

SpecFault == Init /\ [][FaultNext]_vars /\ FaultFairness

SweepFairness == WF_vars(Tick) /\ WF_vars(cleanup_task)

SpecSweep == Spec /\ SweepFairness

SpecStream == Init /\ [][StreamNext]_vars

SpecResources == Init /\ [][ResourcesNext]_vars

SpecSchema == Init /\ [][SchemaNext]_vars

SpecMessages == Init /\ [][MessagesNext]_vars

SpecGate == Init /\ [][GateNext]_vars

SpecSend == Init /\ [][SendNext]_vars

SpecHandle == Init /\ [][HandleNext]_vars

SpecSerialize == Init /\ [][SerializeNext]_vars

SpecRegistry == Init /\ [][RegistryNext]_vars


(***************************************************************************)
(* Where a request is, and what was emitted.                               *)
(***************************************************************************)
RECURSIVE SeqCount(_, _)
SeqCount(s, id) ==
    IF s = <<>> THEN 0
    ELSE (IF Head(s).id = id THEN 1 ELSE 0) + SeqCount(Tail(s), id)

RECURSIVE SumOver(_, _, _)
SumOver(ss, id, n) ==
    IF n = 0 THEN 0 ELSE SeqCount(ss[n], id) + SumOver(ss, id, n - 1)

EmittedCount(id) == SumOver(sent, id, Len(sent))

QueuedCount(id) == SumOver(queue, id, Len(queue))

DrainingCount(id) == SumOver([s \in StreamIds |-> streams[s].drain], id, Len(streams))

BufferedCount(id) ==
    IF \E u \in DOMAIN pending_requests : \E p \in Range(pending_requests[u]) : p.id = id
    THEN SeqCount(pending_requests[CHOOSE u \in DOMAIN pending_requests :
                     \E p \in Range(pending_requests[u]) : p.id = id], id)
    ELSE 0

InflightCount(id) == Cardinality({f \in inflight : f.id = id})

ReqIds == 1 .. (nextReq - 1)

StreamsOf(u) == {s \in StreamIds : streams[s].user = u}

OpenStreamsOf(u) == {s \in StreamsOf(u) : IsOpen(s)}

Latest(S) == CHOOSE s \in S : \A t \in S : t <= s

(***************************************************************************)
(* C1 (as claimed): a request buffered while its user had no stream, whose *)
(* user's stream opened while the request was younger than the grace       *)
(* period and is still open, is never lost (purged by the sweep or dropped *)
(* for want of a connection), and its response is never emitted twice.     *)
(***************************************************************************)
C1_BufferedDeliveredOnce ==
    /\ \A c \in covered :
          IsOpen(c[1]) => ~(c[2] \in DOMAIN lost /\ lost[c[2]] \in {"purged", "dropped"})
    /\ \A r \in ReqIds : EmittedCount(r) <= 1

(***************************************************************************)
(* C2 (as claimed): every request is in at most one place (buffer, drain,  *)
(* downstream call, queue, emitted), and no request sits in the pending    *)
(* buffer while a stream of its user is open and past its drain step.      *)
(***************************************************************************)
C2_HandledOnceNoStranded ==
    /\ \A r \in ReqIds :
          BufferedCount(r) + DrainingCount(r) + InflightCount(r)
            + QueuedCount(r) + EmittedCount(r) <= 1
    /\ \A u \in DOMAIN pending_requests :
          pending_requests[u] # <<>> =>
             ~ \E s \in OpenStreamsOf(u) : streams[s].pc = "loop"

(***************************************************************************)
(* C3 (as claimed): a pending request that has reached the grace period    *)
(* (the sweep's own criterion, not age < grace) is never handed to the     *)
(* downstream call by a drain step.                                        *)
(***************************************************************************)
C3_OldNeverForwarded ==
    [][\A s \in StreamIds :
          (streams[s].pc = "stabilizing" /\ streams'[s].pc = "draining") =>
             \A p \in Range(streams'[s].drain) :
                clock - p.ts < connection_grace_period]_vars

(***************************************************************************)
(* C3 (amended): a run of the sweep leaves no pending request that has     *)
(* reached the grace period, and a request the sweep has purged is nowhere *)
(* in the bridge afterwards: not buffered, not in a drain, not in a        *)
(* downstream call, not queued and not emitted.                            *)
(***************************************************************************)
PurgedIds == {r \in DOMAIN lost : lost[r] = "purged"}

C3_SweepPurgesAndPurgedStaysGone ==
    [][/\ (lastSweep' # lastSweep =>
              \A u \in DOMAIN pending_requests' :
                 \A p \in Range(pending_requests'[u]) :
                    clock' - p.ts < connection_grace_period)
       /\ \A r \in PurgedIds :
             /\ r \in PurgedIds'
             /\ BufferedCount(r)' = 0
             /\ DrainingCount(r)' = 0
             /\ InflightCount(r)' = 0
             /\ QueuedCount(r)' = 0
             /\ EmittedCount(r)' = 0]_vars

C3_Witness ==
    \E r \in PurgedIds : \E s \in StreamIds :
        /\ streams[s].pc = "loop"
        /\ <<s, r>> \notin covered

(***************************************************************************)
(* C4 (as claimed): while a stream of user U is open, the connection map   *)
(* and the metadata map hold the entry of the most recently opened of U's  *)
(* open streams.                                                           *)
(***************************************************************************)
C4_OneLiveConnection ==
    \A u \in BUsers :
        OpenStreamsOf(u) # {} =>
            /\ u \in DOMAIN connections
            /\ connections[u] = Latest(OpenStreamsOf(u))
            /\ u \in DOMAIN connection_metadata
            /\ connection_metadata[u].connection_id = Latest(OpenStreamsOf(u))

(***************************************************************************)
(* C5: a response is only ever put on the queue of the most recently       *)
(* opened stream of its user; once a second stream has opened, the first   *)
(* stream's queue receives nothing more.                                   *)
(***************************************************************************)
C5_LastRegistrationWins ==
    [][\A s \in StreamIds :
          Len(queue'[s]) > Len(queue[s]) => s = Latest(StreamsOf(streams[s].user))]_vars

C5_Witness ==
    \E s1, s2 \in StreamIds :
        /\ s1 < s2
        /\ streams[s1].user = streams[s2].user
        /\ IsOpen(s1) /\ IsOpen(s2)
        /\ queue[s2] # <<>>
        /\ queue[s1] = <<>>

(***************************************************************************)
(* The tool registry and the MCP server.                                   *)
(***************************************************************************)
\* What the stored configuration says, every check working.
PluginEnabledFor(t) == ToolPlugin[t] \in plugin_enabled

ToolEnabledFor(t) == t \notin DOMAIN tool_configs \/ tool_configs[t].enabled

RoleAllowedFor(t, u) ==
    \/ t \notin DOMAIN tool_configs
    \/ tool_configs[t].role_access_mode = "Allow All"
    \/ "System Manager" \in get_roles[u]
    \/ tool_configs[t].role_access \cap get_roles[u] # {}

PermittedFor(t, u) == requires_permission(t) => u \notin perm_denied

OwnTools(th) ==
    Range(get_available_tools(tool_configs, plugin_enabled, perm_denied, ThreadUser[th], FALSE))

\* C6: with requests of different users served concurrently in one process,
\* a request's tools/list lists exactly the tools registered for its own
\* user, and its tools/call runs the named tool exactly when that tool is
\* registered for its own user: it never sees the registry as another
\* request in flight has cleared or repopulated it.
C6_RequestSeesOwnRegistry ==
    \A th \in ServerThreads :
        threads[th].pc = "done" =>
            /\ threads[th].req.method = "tools/list" =>
                   Range(threads[th].resp.listed) = OwnTools(th)
            /\ threads[th].req.method = "tools/call" =>
                   (threads[th].resp.ran = threads[th].req.name
                        <=> threads[th].req.name \in OwnTools(th))

\* C7: a tools/call of a registered tool whose function raises is answered
\* with HTTP success and a JSON-RPC envelope that carries `result` (no
\* `error`) with isError true.
C7_ToolExceptionIsResult ==
    (last.endpoint \in {"fac_endpoint", "mcp_endpoint"} /\ last.resp.raised) =>
        /\ last.resp.status = 200
        /\ last.resp.kind = "result"
        /\ last.resp.code = 0
        /\ last.resp.isError

C7_Witness ==
    /\ last.endpoint = "fac_endpoint"
    /\ last.req.method = "tools/call"
    /\ last.resp.ran = last.req.name
    /\ last.resp.raised

\* C8: the listing computed for a request returns a tool only if the owning
\* plugin is enabled, the tool is enabled, the caller's roles allow it and
\* the permission check passes; a check that fails to evaluate (the
\* configuration cannot be loaded, the roles cannot be read) hides the tool.
C8_ListingFailClosed ==
    last.endpoint = "fac_endpoint" =>
        \A t \in Range(last.available) :
            /\ PluginEnabledFor(t)
            /\ ToolEnabledFor(t)
            /\ RoleAllowedFor(t, last.user)
            /\ PermittedFor(t, last.user)

\* C9: a tool's function runs (through tools/call or execute_tool) only if,
\* at that moment, the tool is enabled, role-allowed and permitted for the
\* caller.
C9_RunOnlyIfAccessibleAtCall ==
    last.resp.ran # "none" =>
        /\ ToolEnabledFor(last.resp.ran)
        /\ RoleAllowedFor(last.resp.ran, last.user)
        /\ PermittedFor(last.resp.ran, last.user)

NoDuplicates(reg) == Cardinality(Range(reg)) = Len(reg)

\* C10: after an entry into either endpoint, that endpoint's registry holds
\* each tool name once and holds exactly the tools available to the
\* request's user.
C10_RegistryRebuiltPerEntry ==
    /\ last.endpoint = "fac_endpoint" =>
           NoDuplicates(fac_registry) /\ Range(fac_registry) = Range(last.available)
    /\ last.endpoint = "mcp_endpoint" =>
           NoDuplicates(mcp_registry) /\ Range(mcp_registry) = Range(last.available)

(***************************************************************************)
(* The bridge: terminal responses, the POST decision, refusals, teardown.  *)
(***************************************************************************)
InQueue(s, r) == s \in StreamIds /\ [id |-> r] \in Range(queue[s])

InSent(s, r) == s \in StreamIds /\ [id |-> r] \in Range(sent[s])

Closed(s) == s \in StreamIds /\ ~IsOpen(s)

\* The downstream call of request r, made for user u, returns in this step.
Completing(r, u) ==
    \/ \E f \in inflight : f.id = r /\ f.user = u /\ f \notin inflight'
    \/ \E s \in StreamIds :
          /\ streams[s].pc = "draining"
          /\ streams[s].user = u
          /\ Head(streams[s].drain).id = r
          /\ streams'[s].pc # "closed"
          /\ streams'[s].drain = Tail(streams[s].drain)

CompletionQueuesOnce ==
    \A r \in 1 .. MaxReqs : \A u \in BUsers :
        Completing(r, u) =>
            IF u \in DOMAIN connections
            THEN /\ queue' = [queue EXCEPT ![connections[u]] = Append(@, [id |-> r])]
                 /\ lost' = lost
            ELSE /\ queue' = queue
                 /\ r \in DOMAIN lost' /\ lost'[r] = "dropped"

\* C11 (as claimed): a response that was queued on a Connection is
\* eventually emitted as a `message` event on that stream.
C11_QueuedEventuallyEmitted ==
    \A s \in 1 .. MaxStreams : \A r \in 1 .. MaxReqs : InQueue(s, r) ~> InSent(s, r)

\* C11 (amended): when the downstream call of a request returns, its one
\* terminal response is put once on the queue of the Connection registered
\* for the user at that moment, and is dropped exactly when there is none;
\* a queued response is eventually emitted as a `message` event unless its
\* stream closes first.
C11_QueuedOnceEmittedUnlessClosed ==
    /\ [][CompletionQueuesOnce]_vars
    /\ \A s \in 1 .. MaxStreams : \A r \in 1 .. MaxReqs :
          InQueue(s, r) ~> (InSent(s, r) \/ Closed(s))

C11_Witness ==
    \E s \in StreamIds : \E r \in ReqIds :
        /\ IsOpen(s)
        /\ InSent(s, r)
        /\ r \notin DOMAIN lost

\* The POST just handled forwarded the request for u and buffered nothing.
ForwardedOnly(u) ==
    /\ \E f \in inflight' : f \notin inflight /\ f.user = u /\ inflight' = inflight \cup {f}
    /\ pending_requests' = pending_requests

\* The POST just handled appended one PendingRequest for u and forwarded nothing.
BufferedOnly(u) ==
    /\ u \in DOMAIN pending_requests'
    /\ Len(pending_requests'[u]) =
          1 + (IF u \in DOMAIN pending_requests THEN Len(pending_requests[u]) ELSE 0)
    /\ inflight' = inflight

ForwardXorBuffer(u) ==
    /\ reply'.status = 202 /\ reply'.kind = "accepted_sse_url"
    /\ IF u \in DOMAIN connections THEN ForwardedOnly(u) ELSE BufferedOnly(u)

\* C12: a POST whose credentials validation accepts is either forwarded (the
\* user has a Connection at that moment) or buffered as a PendingRequest and
\* acknowledged with the 202 carrying the SSE URL: never both, never neither.
C12_AuthenticatedPostForwardsXorBuffers ==
    [][\A c \in Credentials : \A b \in PostBodies : \A m \in PostMethods :
          (/\ c \notin RejectedCredentials
           /\ PostInputs(c, b, m)
           /\ mcp_sse_endpoint_post_http(c, b, m)) =>
              ForwardXorBuffer(validate_authorization(c))]_vars

\* C13: a GET or POST whose credentials are missing or rejected is refused
\* (401) and leaves the connection map, the connection metadata and the
\* pending-request buffers as they were.
C13_RefusedLeavesBridgeUntouched ==
    [][\A c \in RejectedCredentials :
          (\/ mcp_sse_endpoint_get(c)
           \/ \E b \in PostBodies : \E m \in PostMethods :
                 PostInputs(c, b, m) /\ mcp_sse_endpoint_post_http(c, b, m))
          => /\ reply'.status = 401
             /\ UNCHANGED <<connections, connection_metadata, pending_requests>>]_vars

\* A request was refused while a Connection and a PendingRequest existed.
C13_Witness ==
    /\ reply.status = 401 /\ reply.kind = "invalid_or_missing"
    /\ connections # EmptyDict
    /\ pending_requests # EmptyDict

\* Stream s closes in this step.
Closing(s) == IsOpen(s) /\ streams'[s].pc = "closed"

TeardownAndDrop ==
    /\ \A s \in StreamIds :
          Closing(s) =>
              /\ streams[s].user \notin DOMAIN connections'
              /\ streams[s].user \notin DOMAIN connection_metadata'
    /\ \A r \in 1 .. MaxReqs : \A u \in BUsers :
          (Completing(r, u) /\ u \notin DOMAIN connections) =>
              /\ queue' = queue
              /\ pending_requests' = pending_requests
              /\ r \in DOMAIN lost' /\ lost'[r] = "dropped"

\* C14: when a stream closes, its user has neither a Connection nor a
\* metadata entry; a response produced while its user has no Connection is
\* dropped: it is put on no queue and in no buffer, and is never emitted.
C14_TeardownRemovesAndDrops ==
    /\ [][TeardownAndDrop]_vars
    /\ [](\A r \in DOMAIN lost :
            lost[r] = "dropped" =>
                /\ \A s \in StreamIds : ~InQueue(s, r) /\ ~InSent(s, r)
                /\ r \notin PendingIds(pending_requests))

\* A stream has closed, its user has no Connection, and a response produced
\* for that user afterwards was dropped.
C14_Witness ==
    \E s \in StreamIds : \E r \in DOMAIN lost :
        /\ ~IsOpen(s)
        /\ streams[s].user \notin DOMAIN connections
        /\ lost[r] = "dropped"

\* This step is a call that reached the downstream server, whose HTTP call failed.
DownstreamFailed ==
    /\ nextReq' # nextReq
    /\ call'.method \in {"initialize", "tools/call"}
    /\ call'.outcome \in FailureOutcomes

IsInternalError(r, id) == r.kind = "error" /\ r.code = -32603 /\ r.id = id

\* In this step r went where a response of this call goes: onto the queue
\* registered for the user when the call uses SSE and the user has a
\* Connection, back to the caller otherwise.
TravelsAsResponse(r) ==
    IF call'.use_sse /\ call'.user \in DOMAIN connections
    THEN /\ call'.channel = "sse_queue"
         /\ queue' = [queue EXCEPT ![connections[call'.user]] = Append(@, r)]
    ELSE /\ call'.channel = "direct_return"
         /\ queue' = queue

FifoStep(s) ==
    /\ sent'[s] # sent[s] =>
          /\ queue[s] # <<>>
          /\ sent'[s] = Append(sent[s], Head(queue[s]))
          /\ queue'[s] = Tail(queue[s])
    /\ queue'[s] # queue[s] =>
          \/ \E r \in 1 .. MaxReqs : queue'[s] = Append(queue[s], [id |-> r])
          \/ sent'[s] = Append(sent[s], Head(queue[s])) /\ queue'[s] = Tail(queue[s])
          \/ Closing(s) /\ queue'[s] = <<>>

\* C16: on every stream the `message` events are the responses in the order
\* they were queued: each emission takes the oldest queued response and
\* removes it, and a response is only ever queued behind the others.
C16_QueueIsFifo ==
    /\ [][\A s \in StreamIds : FifoStep(s)]_vars
    /\ [](\A s \in StreamIds : \A r \in 1 .. MaxReqs :
            SeqCount(sent[s] \o queue[s], r) <= 1)

\* Request 1 arrived before request 2, and their responses were queued and
\* emitted in the opposite order.
C16_Witness ==
    \E s \in StreamIds : sent[s] = <<[id |-> 2], [id |-> 1]>>

(***************************************************************************)
(* The protocol handler: notifications, unknown tools, bodies, ids.        *)
(***************************************************************************)
\* The request just served was a POST whose body decoded to a JSON object.
ServedObject == last.endpoint = "fac_endpoint" /\ last.req.http = "POST" /\ last.req.body = "object"

NothingRouted == last.resp.result = "none" /\ last.resp.listed = <<>> /\ last.resp.ran = "none"

\* C17: a request whose method starts with "notifications/" is answered 202
\* with no JSON-RPC body, whatever its params and id; nothing is computed
\* and no tool runs.
C17_NotificationSilence ==
    (ServedObject /\ last.req.method \in NotificationMethods) =>
        /\ last.resp.status = 202
        /\ last.resp.kind = "empty"
        /\ last.resp.id = "none"
        /\ NothingRouted

\* A notification that carries an id and null params was acknowledged.
C17_Witness ==
    /\ ServedObject /\ last.req.method = "notifications/cancelled"
    /\ last.req.id = "id1" /\ last.req.params = "null"
    /\ last.resp.status = 202

\* C18: tools/call naming a tool that is not in the registry is answered
\* with a JSON-RPC success (request id echoed, a result, no error) whose
\* result has isError true and a text naming the tool; no tool runs.
C18_UnknownToolIsErrorResult ==
    (/\ ServedObject /\ last.req.method = "tools/call"
     /\ ~MissingId(last.req) /\ last.req.params = "dict"
     /\ last.req.name \notin Range(fac_registry)) =>
        /\ last.resp.status = 200 /\ last.resp.kind = "result"
        /\ last.resp.id = last.req.id
        /\ last.resp.result = "tool_not_found"
        /\ last.resp.isError
        /\ last.resp.named = last.req.name
        /\ last.resp.ran = "none"

\* A tool that exists but is not registered for the user was called.
C18_Witness ==
    /\ ServedObject /\ last.req.method = "tools/call"
    /\ last.req.name = "delete_document"
    /\ "delete_document" \notin Range(fac_registry)
    /\ last.resp.result = "tool_not_found"

\* C19: a body that does not decode as one JSON object yields the JSON-RPC
\* error -32700 with id null under a 4xx status, and nothing else happens.
C19_NonObjectBodyIsParseError ==
    (/\ last.endpoint = "fac_endpoint" /\ last.req.http = "POST"
     /\ last.req.body \in {"malformed", "other"}) =>
        /\ last.resp.kind = "error" /\ last.resp.code = -32700
        /\ last.resp.id = "null"
        /\ last.resp.status \in 400 .. 499
        /\ NothingRouted

\* C20: a request that is no notification and whose id is absent or null is
\* answered with the error -32600 and id null; its method is not routed.
C20_MissingIdIsInvalidRequest ==
    (/\ ServedObject /\ last.req.method \notin NotificationMethods
     /\ last.req.id \in {"absent", "null"}) =>
        /\ last.resp.kind = "error" /\ last.resp.code = -32600
        /\ last.resp.id = "null"
        /\ NothingRouted

\* A tools/call of a registered tool with id null was refused.
C20_Witness ==
    /\ ServedObject /\ last.req.method = "tools/call" /\ last.req.id = "null"
    /\ last.req.name \in Range(fac_registry)
    /\ last.resp.code = -32600

\* The methods handle() routes.
RecognizedMethods == {"initialize", "tools/list", "tools/call", "ping"}

\* The request just served parsed, is no notification and has an id.
ServedRouted ==
    ServedObject /\ last.req.method \notin NotificationMethods /\ ~MissingId(last.req)

\* C21: a routed request with an unknown method gets the error -32601 that
\* names the method and echoes the id; one with a recognized method gets a
\* success envelope with the same id (ping: the empty object).
C21_UnknownMethodElseSuccess ==
    ServedRouted =>
        IF last.req.method \in RecognizedMethods
        THEN /\ last.resp.status = 200 /\ last.resp.kind = "result"
             /\ last.resp.id = last.req.id
             /\ last.req.method = "ping" => last.resp.result = "empty_object"
        ELSE /\ last.resp.kind = "error" /\ last.resp.code = -32601
             /\ last.resp.id = last.req.id
             /\ last.resp.named = last.req.method

(***************************************************************************)
(* Serialization of tool results.                                          *)
(***************************************************************************)
\* C22: whatever a tool returns, serializing its result and the envelope
\* never throws; a string passes through verbatim, and every value json
\* cannot encode appears as its string form, in a result with isError false.
C22_SerializationTotal ==
    ser.applied =>
        /\ ~ser.threw
        /\ ~ser.result.isError
        /\ ser.result.text.items = [i \in DOMAIN ser.value.items |-> str(ser.value.items[i])]
        /\ (ser.value.shape = "atom" /\ ser.value.items[1] = "str") => ser.result.verbatim

(***************************************************************************)
(* Registration.                                                           *)
(***************************************************************************)
\* the names registered so far, each once, in the order of its first registration
RECURSIVE FirstOrder(_)
FirstOrder(h) ==
    IF h = <<>> THEN <<>>
    ELSE LET f == FirstOrder(SubSeq(h, 1, Len(h) - 1))
         IN  IF h[Len(h)].name \in Range(f) THEN f ELSE Append(f, h[Len(h)].name)

\* the metadata of the latest registration of a name
LastMeta(h, name) ==
    h[CHOOSE i \in DOMAIN h : /\ h[i].name = name
                              /\ \A j \in DOMAIN h : j > i => h[j].name # name].meta

\* C23: after any registrations, by the decorator or add_tool, the registry
\* holds one descriptor per registered name, carrying the metadata of the
\* latest registration of that name, and tools/list enumerates the names
\* in the order of their first registration.
C23_RegistryIdempotent ==
    LET listed == tools_list(tool_registry)
    IN  /\ [i \in DOMAIN listed |-> listed[i].name] = FirstOrder(registered)
        /\ \A i \in DOMAIN tool_registry :
               tool_registry[i] = Descriptor(tool_registry[i].name,
                                             LastMeta(registered, tool_registry[i].name))
        /\ \A i \in DOMAIN listed :
               listed[i] = tool_spec(Descriptor(listed[i].name,
                                                LastMeta(registered, listed[i].name)))

\* a name registered twice, by the decorator and by add_tool, with different
\* metadata, after another name came in between
C23_Witness ==
    /\ Len(registered) = 3
    /\ registered[1].name = "tool_x" /\ registered[3].name = "tool_x"
    /\ registered[2].name = "tool_y"
    /\ registered[1].via # registered[3].via
    /\ registered[1].meta # registered[3].meta
    /\ Len(tool_registry) = 2


(***************************************************************************)
(* The sweep.                                                              *)
(***************************************************************************)
\* the instant of the last sweep the observed time holds
LastSweepAt == ((MaxTicks * TickStep) \div SweepInterval) * SweepInterval

TsOf(r) ==
    LET u == CHOOSE x \in DOMAIN pending_requests :
                 \E p \in Range(pending_requests[x]) : p.id = r
    IN  (CHOOSE p \in Range(pending_requests[u]) : p.id = r).ts

\* r is buffered, no stream is about to drain it, and a sweep is still to
\* come when r has reached the grace period
BufferedBeforeSweep(r) ==
    /\ BufferedCount(r) > 0
    /\ \A s \in StreamIds : streams[s].pc # "stabilizing"
    /\ lastSweep < LastSweepAt
    /\ TsOf(r) + connection_grace_period <= LastSweepAt

\* a run of the sweep keeps exactly the younger requests of every buffer, in
\* their order, holds no empty buffer afterwards and touches no connection
SweepStep ==
    lastSweep' # lastSweep =>
        /\ \A u \in DOMAIN pending_requests :
              LET young == SelectSeq(pending_requests[u],
                                     LAMBDA p : clock - p.ts < connection_grace_period)
              IN  IF young = <<>> THEN u \notin DOMAIN pending_requests'
                  ELSE u \in DOMAIN pending_requests' /\ pending_requests'[u] = young
        /\ DOMAIN pending_requests' \subseteq DOMAIN pending_requests
        /\ connections' = connections
        /\ connection_metadata' = connection_metadata
        /\ queue' = queue /\ streams' = streams

\* C24: a buffered request whose user opens no stream afterwards is
\* discarded by the sweep once it has reached the grace period; the sweep
\* removes the buffers it empties, keeps the younger requests and leaves
\* the connections alone; no buffer is ever left empty.
C24_SweepBoundsPending ==
    /\ \A r \in 1 .. MaxReqs : \A n \in 0 .. MaxStreams :
          (BufferedBeforeSweep(r) /\ Len(streams) = n)
              ~> (r \in PurgedIds \/ Len(streams) > n)
    /\ [][SweepStep]_vars
    /\ [](\A u \in DOMAIN pending_requests : pending_requests[u] # <<>>)

\* the sweep has just purged a request, kept a younger one of the same
\* user, who never opened a stream
C24_Witness ==
    /\ PurgedIds # {}
    /\ lastSweep = clock
    /\ streams = <<>>
    /\ \E u \in DOMAIN pending_requests :
          \E p \in Range(pending_requests[u]) : p.ts = clock


(***************************************************************************)
(* Keepalive.                                                              *)
(***************************************************************************)
TimedOut(s) == pings'[s] # pings[s]

C26_DisabledMeansNoResources ==
    (applied.fn \in {"resources/list", "resources/read"}
        /\ ~is_resources_enabled(applied.setting)) =>
            /\ applied.response.resources = {}
            /\ applied.response.contents = <<>>


(***************************************************************************)
(* The inferred input schema.                                              *)
(***************************************************************************)
\* C27: the inferred schema has exactly one property for each parameter of
\* the signature, and a parameter is in `required`, once, if and only if
\* it has no default value.
C27_SchemaMatchesSignature ==
    applied.fn = "_generate_input_schema" =>
        LET sig == applied.sig
            schema == applied.schema
        IN  /\ DOMAIN schema.properties = {sig[i].name : i \in DOMAIN sig}
            /\ Cardinality(DOMAIN schema.properties) = Len(sig)
            /\ \A i \in DOMAIN sig :
                  sig[i].name \in Range(schema.required) <=> sig[i].default = "empty"
            /\ Cardinality(Range(schema.required)) = Len(schema.required)

\* a signature with a parameter defaulting to None and one without default
C27_Witness ==
    /\ applied.fn = "_generate_input_schema"
    /\ Len(applied.sig) = 2
    /\ applied.sig[1].default = "None"
    /\ applied.sig[2].default = "empty"
    /\ applied.schema.required = <<applied.sig[2].name>>


(***************************************************************************)
(* The order of the checks in handle().                                    *)
(***************************************************************************)
Served == last.endpoint = "fac_endpoint"

\* the ways a request ends: one per return of handle(), and the exception
\* that leaves it
Outcomes ==
    {<<"not_post", last.resp.status = 405>>,
     <<"parse_error", last.resp.kind = "error" /\ last.resp.code = -32700>>,
     <<"acknowledged", last.resp.status = 202>>,
     <<"invalid_request", last.resp.kind = "error" /\ last.resp.code = -32600>>,
     <<"method_not_found", last.resp.kind = "error" /\ last.resp.code = -32601>>,
     <<"success", last.resp.kind = "result">>,
     <<"exception", last.resp.kind = "exception">>}

\* C28: every served request ends in exactly one outcome, decided in the
\* order parse, notification, id, route: a body that is not JSON is a parse
\* error; a notification is acknowledged with 202 with or without an id; a
\* request that is no notification and has no id gets -32600 whatever its
\* method; -32601 goes only to a parsed request that is no notification,
\* has an id and names no routed method.
C28_ChecksInOrder ==
    Served =>
        /\ Cardinality({o \in Outcomes : o[2]}) = 1
        /\ (last.req.http = "POST" /\ last.req.body = "malformed") =>
               (last.resp.code = -32700 /\ last.resp.id = "null")
        /\ (ServedObject /\ _is_notification(last.req)) =>
               (last.resp.status = 202 /\ last.resp.kind = "empty")
        /\ (ServedObject /\ ~_is_notification(last.req) /\ MissingId(last.req)) =>
               (last.resp.kind = "error" /\ last.resp.code = -32600)
        /\ last.resp.code = -32601 =>
               /\ ServedRouted
               /\ last.req.method \notin RecognizedMethods
        /\ last.resp.kind = "result" => ServedRouted

\* a request with an unknown method and no id was refused for its id
C28_Witness ==
    /\ ServedObject /\ last.req.method = "no_such_method" /\ last.req.id = "absent"
    /\ last.resp.code = -32600


(***************************************************************************)
(* The Authorization value sent downstream.                                *)
(***************************************************************************)
\* the Authorization values of the downstream calls in progress: those of
\* the POST handler and those of the drains
DownstreamAuths ==
    {f.auth : f \in inflight} \cup
    {Head(streams[s].drain).auth : s \in {t \in StreamIds : streams[t].pc = "draining"}}

\* C29: every request on its way to the server carries the Authorization
\* header as it was validated, scheme and credential, never the token the
\* POST handler cut out of it.
C29_DownstreamCarriesHeader == DownstreamAuths \subseteq {"header"}


(***************************************************************************)
(* POST /mcp/messages.                                                     *)
(***************************************************************************)
\* the step handles a POST to /mcp/messages
MessageStep ==
    /\ reply'.endpoint = "messages" /\ applied'.fn = "mcp_messages"
    /\ (reply' # reply \/ applied' # applied \/ nextReq' # nextReq)

\* the person a credential belongs to
Owner(c) ==
    CASE c = "bearer_ok" -> "first_user"
      [] c = "bearer_alias" -> "second_user"
      [] OTHER -> "key_holder"

\* the person who opened the stream of a context: streams are opened with
\* the first user's token or with the API key
ConnectionOwner(ctx) == IF ctx = "user_a" THEN "first_user" ELSE "key_holder"

\* C30: a POST to /mcp/messages is forwarded only when its session id is
\* the id of a registered connection and its credentials validate to that
\* connection's user context, so that the request of one user never goes
\* to the stream of another; every other POST is rejected and leaves the
\* bridge as it was.
C30_MessageForwardedOnlyToOwnSession ==
    [][MessageStep =>
          IF applied'.forwarded
          THEN \E ctx \in DOMAIN connections \cap DOMAIN connection_metadata :
                  /\ applied'.session_id = ConnectionId(ctx)
                  /\ validate_authorization(applied'.credential) = ctx
                  /\ Owner(applied'.credential) = ConnectionOwner(ctx)
                  /\ inflight' \ inflight = {[id |-> nextReq, user |-> ctx,
                                             auth |-> connection_metadata[ctx].auth_token]}
          ELSE /\ reply'.status \in {400, 401, 500}
               /\ UNCHANGED bridgeVars]_vars

\* the request of the last exchange reached the routing with method
\* tools/call and parameters that name a tool
CallsTool ==
    /\ ServedRouted
    /\ last.req.method = "tools/call"
    /\ last.req.params # "null"

\* C32: handle() runs a tool function only for a request that parsed, is no
\* notification, has an id that is not null, has the method tools/call and
\* names a registered tool, and then runs that tool, once; a request that
\* ends in -32700, -32600, -32601 or in the 202 acknowledgement runs no
\* tool; and handle() leaves the registry as the import made it.
C32_ToolRunsOnlyWhenCalled ==
    Served =>
        /\ last.resp.ran # "none" =>
               /\ CallsTool
               /\ last.req.name \in Range(fac_registry)
               /\ last.resp.ran = last.req.name
        /\ (CallsTool /\ last.req.name \in Range(fac_registry)) =>
               last.resp.ran = last.req.name
        /\ (last.resp.code \in {-32700, -32600, -32601} \/ last.resp.status = 202) =>
               last.resp.ran = "none"
        /\ fac_registry = fac_import_tools(<<>>, last.available)

\* a registered tool was called and ran
C32_Witness ==
    /\ Served
    /\ last.resp.ran = "delete_document"
    /\ last.resp.kind = "result"

\* a request was answered by the protocol endpoint in this step
EndpointStep == last'.endpoint = "fac_endpoint" /\ last' # last

\* the header of a request is a Bearer header whose token is known, active
\* and not expired
ValidToken(req) == req.authorization.scheme = "Bearer " /\ req.authorization.token = "Active"

\* the endpoint neither imported the tools nor ran handle(): the registry
\* and the cache that the import fills are as before, no tool ran
NoImportNoHandle ==
    /\ UNCHANGED <<fac_registry, config_cache>>
    /\ last'.resp.ran = "none"
    /\ last'.resp.kind \notin {"result", "error", "empty"}
    /\ last'.available = <<>>

\* C33: on the protocol endpoint a request whose Authorization header is
\* missing or not Bearer, or whose token is unknown, inactive or expired, is
\* answered 401 and reaches neither the tool import nor handle(); the tools
\* are imported only for a valid token whose user has assistant access.
C33_RejectedBeforeImport ==
    [][EndpointStep =>
          /\ ~ValidToken(last'.req) => (last'.resp.status = 401 /\ NoImportNoHandle)
          /\ ~NoImportNoHandle =>
                 /\ ValidToken(last'.req)
                 /\ last'.user \in AuthUsers
                 /\ assistant_enabled[last'.user] = "1"]_vars

\* a request with a revoked token was answered 401 while tools were registered
C33_Witness ==
    /\ last.endpoint = "fac_endpoint"
    /\ last.req.authorization = Authorization("Bearer ", "Revoked")
    /\ last.resp.status = 401
    /\ fac_registry # <<>>

\* C34: in every state of the bridge the users with a response queue in
\* connections are the users with an entry in connection_metadata: the
\* stream writes both entries when it opens and deletes both when it ends.
C34_ConnectionMapsAgree == DOMAIN connections = DOMAIN connection_metadata

\* one stream has ended and another user's stream is registered
C34_Witness ==
    /\ \E s \in StreamIds : streams[s].pc = "closed"
    /\ DOMAIN connections # {}
    /\ DOMAIN connections = DOMAIN connection_metadata

\* the run of the sweep that follows the failed one
NextSweepAfterFault == lastSweep + 2 * SweepInterval

\* a run of the sweep has thrown, r is buffered, no stream is about to drain
\* it, and r has reached the grace period when the next run is scheduled
BufferedAfterFault(r) ==
    /\ sweeper = "failed"
    /\ BufferedCount(r) > 0
    /\ \A s \in StreamIds : streams[s].pc # "stabilizing"
    /\ NextSweepAfterFault <= MaxFaultTicks * TickStep
    /\ TsOf(r) + connection_grace_period <= NextSweepAfterFault

\* C35: a run of the sweep that throws does not end the sweeping: the task
\* runs again at its next scheduled time, so a buffered request that reaches
\* the grace period after the fault, and whose user opens no stream, is
\* still purged.
C35_SweepSurvivesFault ==
    \A r \in 1 .. MaxReqs : \A n \in 0 .. MaxStreams :
        (BufferedAfterFault(r) /\ Len(streams) = n)
            ~> (r \in PurgedIds \/ Len(streams) > n)

Checked == applied.fn = "user_has_access"

\* some row of the document names a role of the user and allows it
AllowedByRow ==
    \E i \in DOMAIN applied.doc.role_access :
        /\ applied.doc.role_access[i].role \in get_roles[applied.user]
        /\ applied.doc.role_access[i].allow_access = 1

\* C36: for every configuration and every user the registry's check and
\* the document's check give the same answer: no for a disabled tool, yes
\* under "Allow All", yes for a System Manager, otherwise yes exactly when
\* a row with one of the user's roles has allow_access set.
C36_AccessChecksAgree ==
    Checked =>
        /\ (applied.registry = "yes") = applied.document
        /\ applied.registry \in {"yes", "no"}
        /\ applied.document =
               IF applied.doc.enabled = 0 THEN FALSE
               ELSE IF applied.doc.role_access_mode = "Allow All" THEN TRUE
               ELSE IF "System Manager" \in get_roles[applied.user] THEN TRUE
               ELSE AllowedByRow

\* both checks refuse a user whose only listed role has allow_access unset
C36_Witness ==
    /\ Checked
    /\ applied.doc.enabled = 1
    /\ applied.doc.role_access_mode = "Restrict to Listed Roles"
    /\ applied.doc.role_access = <<[role |-> "Sales User", allow_access |-> 0]>>
    /\ applied.user = "alice"
    /\ ~applied.document
    /\ applied.registry = "no"

\* the JSON type that a type name stands for, "string" for a name that is
\* none of the known ones
JsonTypeOfName(w) ==
    CASE w = <<"s", "t", "r">> -> "string"
      [] w = <<"s", "t", "r", "i", "n", "g">> -> "string"
      [] w = <<"i", "n", "t">> -> "integer"
      [] w = <<"i", "n", "t", "e", "g", "e", "r">> -> "integer"
      [] w = <<"f", "l", "o", "a", "t">> -> "number"
      [] w = <<"n", "u", "m", "b", "e", "r">> -> "number"
      [] w = <<"b", "o", "o", "l">> -> "boolean"
      [] w = <<"b", "o", "o", "l", "e", "a", "n">> -> "boolean"
      [] w = <<"d", "i", "c", "t">> -> "object"
      [] w = <<"o", "b", "j", "e", "c", "t">> -> "object"
      [] w = <<"l", "i", "s", "t">> -> "array"
      [] w = <<"a", "r", "r", "a", "y">> -> "array"
      [] OTHER -> "string"

\* a string annotation read as a type: what is written before "[" is the
\* type; Optional[X] is X
JsonTypeOfText(text) ==
    LET low == lower(text)
        open == IF \E i \in DOMAIN low : low[i] = "["
                THEN CHOOSE i \in DOMAIN low : low[i] = "[" /\ \A j \in 1 .. (i - 1) : low[j] # "["
                ELSE Len(low) + 1
        outer == SubSeq(low, 1, open - 1)
        inner == SubSeq(low, open + 1, Len(low) - 1)
    IN  IF outer = <<"o", "p", "t", "i", "o", "n", "a", "l">> THEN JsonTypeOfName(inner) ELSE JsonTypeOfName(outer)

\* the JSON type of the type an annotation names, for type objects and
\* strings alike
JsonTypeOfAnnotation(annotation) ==
    CASE annotation.kind = "string" -> JsonTypeOfText(annotation.text)
      [] annotation.kind = "type" /\ annotation.name \in {"str"} -> "string"
      [] annotation.kind = "type" /\ annotation.name \in {"int"} -> "integer"
      [] annotation.kind = "type" /\ annotation.name \in {"float"} -> "number"
      [] annotation.kind = "type" /\ annotation.name \in {"bool"} -> "boolean"
      [] annotation.kind = "type" /\ annotation.name \in {"dict", "typing.Dict"} -> "object"
      [] annotation.kind = "type" /\ annotation.name \in {"list", "typing.List"} -> "array"
      [] OTHER -> "string"

\* C37: the type mapping of the schema inferencer answers for every
\* annotation and never raises: an annotation that names a string type gives
\* "string", an integer type "integer", float or number "number", a boolean
\* type "boolean", a mapping or object type "object", a sequence or array
\* type "array", for type objects and for string annotations alike; no
\* annotation and an annotation that names none of these give "string".
C37_TypeMappingTotal ==
    applied.fn = "_get_json_type" =>
        /\ applied.type # "raise"
        /\ applied.type = JsonTypeOfAnnotation(applied.annotation)

\* what holds: the mapping is as stated for Parameter.empty, for the type
\* objects other than typing.List and for the string annotations that are
\* one type name containing none of the other names
PlainAnnotationsMapped ==
    (/\ applied.fn = "_get_json_type"
     /\ \/ applied.annotation.kind = "empty"
        \/ applied.annotation.kind = "type" /\ applied.annotation.name # "typing.List"
        \/ /\ applied.annotation.kind = "string"
           /\ lower(applied.annotation.text) \in TypeWords \ {<<"p", "o", "i", "n", "t">>})
        => applied.type = JsonTypeOfAnnotation(applied.annotation)

=============================================================================
